---- MODULE Spec2Model ----
(***************************************************************************)
(* Stardom music simulator: the career state machine of App (the React     *)
(* component of src/unnamed/part_001) and the Oracle service of            *)
(* src/unnamed/part_000 (geminiService).                                   *)
(*                                                                         *)
(* Numbers.  JavaScript numbers are modelled by exact arithmetic:          *)
(*   - fans, fame, streams, followers are integers;                        *)
(*   - a stream rate is an integer count of 1e-7 dollars per stream;       *)
(*   - an amount of money is [d |-> dollars, n |-> nano-dollars] with      *)
(*     0 <= n < 1e9, i.e. the value d + n/1e9 (d is the floor);            *)
(*   - a Math.random() multiplier 0.8 + r*0.4 is one of a few hundredths.  *)
(* Products that exceed 32-bit integers are computed on                    *)
(* little-endian sequences of base-10000 limbs.                            *)
(***************************************************************************)
EXTENDS Integers, Sequences, FiniteSets, TLC

VARIABLES
    isSetup,        \* useState isSetup: the setup screen is shown
    gameState,      \* useState gameState: the committed CareerState
    storage,        \* localStorage[SAVE_KEY]: the JSON text, or NoSave
    pendingAwards,  \* useState pendingAwards: Null or [awards |-> the awards just won]
    activeEvent,    \* useState activeEvent: null or the surfaced event
    calls,          \* advanceTime / produceMusicVideo invocations suspended in an await
    nextId,         \* source of the Math.random() ids
    ghost,          \* history variables of the career (not program state)
    last,           \* record of the most recent handler step (history variable)
    studio,         \* useState recordingPhase, draftForm, miniGameScore, sessionCosts,
                    \* and the setTimeout callbacks not yet run
    activeFanInteraction,  \* useState activeFanInteraction: null or {data, resultNarrative?}
    browser         \* the page: whether localStorage.setItem throws (quota exceeded),
                    \* and whether the React tree is still mounted

vars == <<isSetup, gameState, storage, pendingAwards, activeEvent, calls, nextId, ghost, last,
          studio, activeFanInteraction, browser>>

-----------------------------------------------------------------------------
(* Bounds of the model *)

\* advanceTime invocations per behaviour
MaxAdvance == 5
\* advanceTime invocations per behaviour that continues a saved career
MaxAdvanceLoaded == 3
\* other handler invocations per behaviour
MaxOps == 1
\* random career events surfaced per behaviour
MaxEvents == 1
MaxSessions == 1      \* clicks on Book Session
\* invocations suspended in an await at the same time
MaxInFlight == 2
\* produceMusicVideo is invoked for one of the first MaxSongPick released songs
MaxSongPick == 1

-----------------------------------------------------------------------------
(* Arithmetic *)

Base == 100 * 100
NanoPerDollar == 1000 * 1000 * 1000
Million == 1000 * 1000

Max(a, b) == IF a >= b THEN a ELSE b
Min(a, b) == IF a <= b THEN a ELSE b

\* variant: Math.ceil in place of Math.floor
CeilPct(x, pct) == (x * pct + 99) \div 100

\* Math.floor(x * pct / 100) for a non-negative integer x
FloorPct(x, pct) == (x * pct) \div 100

RECURSIVE ToLimbs(_)
ToLimbs(n) == IF n = 0 THEN <<>> ELSE <<n % Base>> \o ToLimbs(n \div Base)

RECURSIVE FromLimbs(_)
FromLimbs(L) == IF L = <<>> THEN 0 ELSE Head(L) + Base * FromLimbs(Tail(L))

\* L * m + c, for 0 <= m <= 200000
RECURSIVE MulLimbs(_, _, _)
MulLimbs(L, m, c) ==
    IF L = <<>>
    THEN ToLimbs(c)
    ELSE LET t == Head(L) * m + c
         IN  <<t % Base>> \o MulLimbs(Tail(L), m, t \div Base)

RECURSIVE AddLimbs(_, _, _)
AddLimbs(L1, L2, c) ==
    IF L1 = <<>> /\ L2 = <<>>
    THEN ToLimbs(c)
    ELSE LET a == IF L1 = <<>> THEN 0 ELSE Head(L1)
             b == IF L2 = <<>> THEN 0 ELSE Head(L2)
             t == a + b + c
         IN  <<t % Base>> \o AddLimbs(IF L1 = <<>> THEN <<>> ELSE Tail(L1),
                                      IF L2 = <<>> THEN <<>> ELSE Tail(L2),
                                      t \div Base)

DropLimbs(L, k) == IF Len(L) <= k THEN <<>> ELSE SubSeq(L, k + 1, Len(L))
Limb(L, i) == IF i <= Len(L) THEN L[i] ELSE 0

\* L * m for any 0 <= m < 2^31
MulBig(L, m) ==
    AddLimbs(MulLimbs(L, m % Base, 0), <<0>> \o MulLimbs(L, m \div Base, 0), 0)

\* Amounts of money
Dollars(k) == [d |-> k, n |-> 0]
AmtAdd(a, b) ==
    LET s == a.n + b.n
    IN  [d |-> a.d + b.d + (s \div NanoPerDollar), n |-> s % NanoPerDollar]
AmtLess(a, k) == a.d < k     \* a < k dollars, k an integer
AmtLeq(a, b) == a.d < b.d \/ (a.d = b.d /\ a.n <= b.n)

\* a count of nano-dollars, in limbs, as an amount
NanoToAmount(L) ==
    LET rest == FromLimbs(DropLimbs(L, 2))
    IN  [d |-> rest \div 10,
         n |-> Limb(L, 1) + Base * Limb(L, 2) + (rest % 10) * (Base * Base)]

\* count * rate * (pct / 100) dollars, rate in 1e-7 dollars
TimesRate(count, rate, pct) == NanoToAmount(MulBig(MulLimbs(ToLimbs(count), pct, 0), rate))

-----------------------------------------------------------------------------
(* Dates: every Date of the program is the first of a month, local time *)

Date(y, m) == [year |-> y, month |-> m]
MonthIndex(dt) == 12 * dt.year + dt.month
\* variant: the month wraps to January without carrying into the year
setMonthNextSameYear(dt) == Date(dt.year, (dt.month + 1) % 12)

\* Date.prototype.setMonth(getMonth() + 1)
setMonthNext(dt) == IF dt.month = 11 THEN Date(dt.year + 1, 0) ELSE Date(dt.year, dt.month + 1)

-----------------------------------------------------------------------------
(* Domain data *)

\* null / undefined, and the absent localStorage item
Null == [null |-> TRUE]
NoSave == [nosave |-> TRUE]

Platforms == {"Instagram", "TikTok", "YouTube", "Spotify", "AppleMusic"}

\* constants.ts is not part of the sources: a catalog with the fields of
\* interface Label, the self-released default first.
LABELS ==
    << [id |-> "indie_self",  fameRequirement |-> 0,       signingBonus |-> 0,      revenueSplit |-> 100],
       [id |-> "label_indie", fameRequirement |-> 1000,    signingBonus |-> 10000,  revenueSplit |-> 80],
       [id |-> "label_major", fameRequirement |-> 2000000, signingBonus |-> 250000, revenueSplit |-> 45] >>

\* LABELS.find(l => l.id === id)
FindLabel(id) ==
    LET hits == {i \in 1..Len(LABELS) : LABELS[i].id = id}
    IN  IF hits = {} THEN Null ELSE LABELS[CHOOSE i \in hits : \A j \in hits : i <= j]

\* variant: the label's split is ignored
ShareOfDefault(labelId) == 100

\* (label?.revenueSplit || 100), as a percentage
ShareOf(labelId) ==
    LET label == FindLabel(labelId)
    IN  IF label = Null THEN 100
        ELSE IF label.revenueSplit = 0 THEN 100 ELSE label.revenueSplit

InitialTrending == <<"#MusicVibes", "#Stardom", "#NewArtist">>
FallbackTrending == <<"#MusicVibes", "#Stardom", "#NewArtist", "#ViralBeat", "#StudioLife">>
\* lists the Oracle may answer with
OracleTrending == { <<"#AIFilters", "#RetroRevival", "#WorldTour2025", "#SynthWave", "#Unplugged">> }

\* Math.random().toString(36).substr(2, 9): the n-th id drawn
RandomId(n) == <<"id", n>>
FallbackOfferId == <<"fallback-offer", 0>>

FallbackOffer ==
    [id |-> FallbackOfferId, brand |-> "GlowWater", payout |-> 5000, charismaPenalty |-> 3]
\* offers the Oracle may answer with (the id is added by generateSponsoredOffer)
OracleOffers ==
    { [brand |-> "SonicCola", payout |-> 20000, charismaPenalty |-> 5] }

\* the Oracle gives no answer: the request is rejected, or the response has no text
NoAnswer == <<>>

\* variant: on failure the three tags a career starts with
generateTrendingTopicsInitial(answer) ==
    IF answer = NoAnswer THEN <<"#MusicVibes", "#Stardom", "#NewArtist">> ELSE answer

\* generateTrendingTopics: the Oracle's list, or the fallback list; never throws
generateTrendingTopics(answer) ==
    IF answer = NoAnswer THEN FallbackTrending ELSE answer

\* generateSponsoredOffer: the Oracle's offer with the n-th random id, or the
\* fallback offer; never throws
generateSponsoredOffer(answer, n) ==
    IF answer = Null THEN FallbackOffer ELSE [id |-> RandomId(n)] @@ answer

\* 0.8 + Math.random() * 0.4, in hundredths
Multipliers == {80, 100, 119}
\* the multipliers drawn for n songs: all low, or high and middle alternating
MultiplierVectors(n) ==
    { [i \in 1..n |-> 80],
      [i \in 1..n |-> IF i % 2 = 1 THEN 119 ELSE 100] }

\* the state handleStartGame creates
NewCareer ==
    [ player |->
        [ fans |-> 100, fame |-> 0, money |-> Dollars(5000),
          followers |-> [Instagram |-> 50, TikTok |-> 75, YouTube |-> 20, Spotify |-> 10, AppleMusic |-> 5],
          skills |-> [songwriting |-> 20, vocals |-> 30, production |-> 10, charisma |-> 40],
          labelId |-> "indie_self" ],
      currentDate |-> Date(2025, 0),
      currentWeek |-> 0,
      songs |-> <<>>,
      unreleasedSongs |-> <<>>,
      awards |-> <<>>,
      charts |-> <<>>,
      socialPosts |-> <<>>,
      trendingTopics |-> InitialTrending,
      activeOffers |-> <<>>,
      history |-> << [month |-> 0, fans |-> 100] >>,
      news |-> << "Fresh start. The path to Gold begins today." >> ]

\* the useState initial value of gameState: the same, without news
DefaultGameState == [f \in (DOMAIN NewCareer) \ {"news"} |-> NewCareer[f]]

-----------------------------------------------------------------------------
(* Economic formulas *)

\* variant: the bonus replaces the base rate instead of adding to it
getStreamRateBonusOnly(fans) ==
    LET baseRate == ((750 * 1000) \div 1500) * (10 * 1000)
    IN  IF fans < Million THEN baseRate
        ELSE fans - Million

\* getStreamRate, in 1e-7 dollars per stream: 750/1500 = 0.5 is 5,000,000
getStreamRate(fans) ==
    LET baseRate == ((750 * 1000) \div 1500) * (10 * 1000)
    IN  IF fans < Million THEN baseRate
        ELSE baseRate + (fans - Million)

\* Math.floor(audienceFactor * qualityFactor * multiplier),
\*   audienceFactor = fans * 0.05 + fame * 0.01 = (5 fans + fame) / 100,
\*   qualityFactor = (quality / 100)^2, multiplier = u / 100
\* (Math.floor of a negative product, when fame is negative, rounds away from 0)
weeklyGain(fans, fame, quality, u) ==
    LET audience == 5 * fans + fame
        product(a) == MulLimbs(MulLimbs(ToLimbs(a), quality * quality, 0), u, 0)
    IN  IF audience >= 0
        THEN FromLimbs(DropLimbs(product(audience), 2))
        ELSE 0 - FromLimbs(DropLimbs(AddLimbs(product(0 - audience),
                                              ToLimbs(Base * Base - 1), 0), 2))

finalWeeklyGain(fans, fame, quality, u) == Max(1, weeklyGain(fans, fame, quality, u))

\* variant: revenue accumulated from the step's gain instead of recomputed
UpdateSongIncremental(song, player, u, currentRate) ==
    LET gain == finalWeeklyGain(player.fans, player.fame, song.quality, u)
    IN  [song EXCEPT !.streams = song.streams + gain,
                     !.revenue = AmtAdd(song.revenue, TimesRate(gain, currentRate, 100))]

\* one element of prev.songs.map(...) in advanceTime
UpdateSong(song, player, u, currentRate) ==
    LET newTotalStreams == song.streams + finalWeeklyGain(player.fans, player.fame, song.quality, u)
    IN  [song EXCEPT !.streams = newTotalStreams,
                     !.revenue = TimesRate(newTotalStreams, currentRate, 100)]

\* variant: the songs sorted by ascending quality
LeastQuality(songs) ==
    CHOOSE q \in {songs[i].quality : i \in 1..Len(songs)} :
        \A i \in 1..Len(songs) : songs[i].quality >= q

\* the highest quality among the songs ([...songs].sort(...)[0].quality)
BestQuality(songs) ==
    CHOOSE q \in {songs[i].quality : i \in 1..Len(songs)} :
        \A i \in 1..Len(songs) : songs[i].quality <= q

\* variant: the season of part_000, which has no Best Artist award
runAwardsSeasonAlbumOnly(state, id) ==
    IF state.player.fans > Million /\ Len(state.songs) >= 3 /\ BestQuality(state.songs) > 85
    THEN << [id |-> <<"aoy", state.currentDate.year, id>>, year |-> state.currentDate.year,
             category |-> "Album of the Year"] >>
    ELSE <<>>

\* variant: a season that stamps the year the rollover opens
runAwardsSeasonNewYear(state, id) ==
    LET year == state.currentDate.year + 1
        aoy == IF state.player.fans > Million /\ Len(state.songs) >= 3
                  /\ BestQuality(state.songs) > 85
               THEN << [id |-> <<"aoy", year, id>>, year |-> year, category |-> "Album of the Year"] >>
               ELSE <<>>
        boty == IF state.player.fame > 5 * Million
                THEN << [id |-> <<"boty", year, id + 1>>, year |-> year, category |-> "Best Artist"] >>
                ELSE <<>>
    IN  aoy \o boty

\* runAwardsSeason: the awards won, ids drawn from id
runAwardsSeason(state, id) ==
    LET year == state.currentDate.year
        aoy == IF state.player.fans > Million /\ Len(state.songs) >= 3
                  /\ BestQuality(state.songs) > 85
               THEN << [id |-> <<"aoy", year, id>>, year |-> year, category |-> "Album of the Year"] >>
               ELSE <<>>
        boty == IF state.player.fame > 5 * Million
                THEN << [id |-> <<"boty", year, id + 1>>, year |-> year, category |-> "Best Artist"] >>
                ELSE <<>>
    IN  aoy \o boty

-----------------------------------------------------------------------------
(* Persistence: JSON.stringify writes a Date as its ISO string, and         *)
(* loadFromStorage rebuilds the Dates it knows of with new Date(...)        *)

toISOString(dt) == [iso |-> MonthIndex(dt)]
newDate(str) == Date(str.iso \div 12, str.iso % 12)

\* the number NaN (0 / 0), kept apart from every quality a computation can give
NaN == 0 - Million

\* the JSON value null where a number is expected, kept apart from every number
JsonNull == 0 - 2 * Million

\* JSON.stringify of a number: NaN is written as null
stringifyNumber(x) == IF x = NaN THEN JsonNull ELSE x

\* JSON.stringify of a song
stringifySong(song) ==
    [song EXCEPT !.releaseDate = toISOString(@), !.quality = stringifyNumber(@)]

stringify(state) ==
    [state EXCEPT
        !.currentDate = toISOString(@),
        !.songs = [i \in 1..Len(@) |-> stringifySong(@[i])],
        !.unreleasedSongs = [i \in 1..Len(@) |-> stringifySong(@[i])],
        !.socialPosts = [i \in 1..Len(@) |-> [@[i] EXCEPT !.timestamp = toISOString(@)]]]

\* new Date(undefined)
InvalidDate == Date(NaN, NaN)

\* JSON.parse and the Date revival of a stored object: a missing list is read
\* as the empty list, a missing currentDate as an invalid Date, and every
\* other field is kept as stored
revive(data) ==
    LET revived ==
            [ currentDate |-> IF "currentDate" \in DOMAIN data THEN newDate(data.currentDate)
                              ELSE InvalidDate,
              songs |-> IF "songs" \in DOMAIN data
                        THEN [i \in 1..Len(data.songs) |->
                                [data.songs[i] EXCEPT !.releaseDate = newDate(@)]]
                        ELSE <<>>,
              unreleasedSongs |-> IF "unreleasedSongs" \in DOMAIN data
                                  THEN [i \in 1..Len(data.unreleasedSongs) |->
                                          [data.unreleasedSongs[i] EXCEPT !.releaseDate = newDate(@)]]
                                  ELSE <<>>,
              socialPosts |-> IF "socialPosts" \in DOMAIN data
                              THEN [i \in 1..Len(data.socialPosts) |->
                                      [data.socialPosts[i] EXCEPT !.timestamp = newDate(@)]]
                              ELSE <<>> ]
    IN  [f \in DOMAIN data \cup DOMAIN revived |->
            IF f \in DOMAIN revived THEN revived[f] ELSE data[f]]

\* loadFromStorage: null when nothing is stored, when the stored text is not
\* JSON (JSON.parse throws) and when it is JSON but not an object (assigning
\* currentDate to it throws in module code); both throws are caught
loadFromStorage(data) ==
    IF data = NoSave THEN Null
    ELSE IF "text" \in DOMAIN data THEN Null
    ELSE IF "json" \in DOMAIN data THEN Null
    ELSE IF {"currentDate", "songs", "unreleasedSongs", "socialPosts"} \subseteq DOMAIN data
    THEN [data EXCEPT
            !.currentDate = newDate(@),
            !.songs = [i \in 1..Len(@) |-> [@[i] EXCEPT !.releaseDate = newDate(@)]],
            !.unreleasedSongs = [i \in 1..Len(@) |-> [@[i] EXCEPT !.releaseDate = newDate(@)]],
            !.socialPosts = [i \in 1..Len(@) |-> [@[i] EXCEPT !.timestamp = newDate(@)]]]
    ELSE revive(data)

-----------------------------------------------------------------------------
(* Careers an earlier session can have left in localStorage.  Each is saved *)
(* by the second weekly advanceTime step after a rollover (currentWeek = 3, *)
(* the last history sample holds the fans of that rollover, the revenue of  *)
(* a song is at the rate of the fans the last step started from).           *)

Song(id, title, quality, released, streams, rate, video) ==
    [id |-> id, title |-> title, quality |-> quality, releaseDate |-> released,
     streams |-> streams, revenue |-> TimesRate(streams, rate, 100), isMusicVideo |-> video]

\* an offer; `added` is a history field: the order in which offers were added
Offer(id, brand, payout, penalty, added) ==
    [id |-> id, brand |-> brand, payout |-> payout, charismaPenalty |-> penalty, added |-> added]

RisingCareer ==
    [ player |->
        [ fans |-> 2000, fame |-> 1500, money |-> [d |-> 20000, n |-> NanoPerDollar \div 2],
          followers |-> [Instagram |-> 400, TikTok |-> 900, YouTube |-> 120, Spotify |-> 60, AppleMusic |-> 30],
          skills |-> [songwriting |-> 25, vocals |-> 30, production |-> 10, charisma |-> 4],
          labelId |-> "label_indie" ],
      currentDate |-> Date(2025, 3),
      currentWeek |-> 3,
      songs |-> << Song(RandomId(-12), "Second", 60, Date(2025, 2), 300, getStreamRate(1981), FALSE),
                   Song(RandomId(-11), "First", 0, Date(2025, 1), 9, getStreamRate(1981), FALSE) >>,
      unreleasedSongs |-> <<>>,
      awards |-> <<>>,
      charts |-> <<>>,
      socialPosts |-> <<>>,
      trendingTopics |-> FallbackTrending,
      activeOffers |-> << Offer(RandomId(-1), "SonicCola", 20000, 5, -1),
                          Offer(FallbackOfferId, "GlowWater", 5000, 3, -2),
                          Offer(RandomId(-3), "PixelWear", 1200, 10, -3) >>,
      history |-> << [month |-> 0, fans |-> 100], [month |-> 1, fans |-> 109],
                     [month |-> 2, fans |-> 1869], [month |-> 3, fans |-> 1962] >>,
      news |-> << "Second is out now", "First is out now",
                  "Fresh start. The path to Gold begins today." >> ]

StarCareer ==
    [ player |->
        [ fans |-> 1499547, fame |-> 4000000, money |-> Dollars(80000),
          followers |-> [Instagram |-> 90000, TikTok |-> 250000, YouTube |-> 70000, Spotify |-> 40000, AppleMusic |-> 9000],
          skills |-> [songwriting |-> 80, vocals |-> 85, production |-> 75, charisma |-> 60],
          labelId |-> "label_major" ],
      currentDate |-> Date(2026, 11),
      currentWeek |-> 3,
      songs |-> << Song(RandomId(-17), "Crown", 90, Date(2026, 9), 900000, getStreamRate(1484700), TRUE),
                   Song(RandomId(-15), "Velvet", 88, Date(2026, 4), 2500000, getStreamRate(1484700), FALSE),
                   Song(RandomId(-14), "Static", 0, Date(2026, 1), 40, getStreamRate(1484700), FALSE) >>,
      unreleasedSongs |-> <<>>,
      awards |-> <<>>,
      charts |-> <<>>,
      socialPosts |-> <<>>,
      trendingTopics |-> FallbackTrending,
      activeOffers |-> <<>>,
      history |-> [i \in 1..24 |->
                     [month |-> i - 1,
                      fans |-> IF i = 24 THEN 1470000 ELSE 100 + (i - 1) * 62000]],
      \* a full log: fifteen headlines
      news |-> [i \in 1..15 |-> IF i = 1 THEN "Crown is out now"
                                ELSE IF i = 2 THEN "Velvet is out now"
                                ELSE "Headline " \o ToString(16 - i)] ]

\* the saved careers, each with the stream gains its month has had so far (history)
SavedCareers ==
    { [state |-> RisingCareer, monthSum |-> 76],
      [state |-> StarCareer, monthSum |-> 360002] }

\* the stream gains of the current month of the stored career (history)
StoredMonthSum(data) ==
    IF data = NoSave THEN 0
    ELSE (CHOOSE c \in SavedCareers : stringify(c.state) = data).monthSum

-----------------------------------------------------------------------------
(* The state machine *)

BASE_STUDIO_RENT == 500
BASE_GHOSTWRITER_FEE == 2500
SESSION_NOTES_REQUIRED == 5

\* the studio's useState values after construction, no timer pending
InitialStudio ==
    [ recordingPhase |-> "idle",
      draftForm |-> [title |-> "", feature |-> "", useGhostwriter |-> FALSE],
      miniGameScore |-> <<>>,
      sessionCosts |-> [rent |-> BASE_STUDIO_RENT, ghostwriter |-> BASE_GHOSTWRITER_FEE],
      timers |-> 0 ]

Init ==
    /\ isSetup = TRUE
    /\ gameState = DefaultGameState
    /\ storage \in {NoSave} \cup {stringify(c.state) : c \in SavedCareers}
    /\ pendingAwards = Null
    /\ activeEvent = Null
    /\ calls = <<>>
    /\ nextId = 1
    /\ ghost = [ adv |-> FALSE,              \* an advanceTime has committed in this career
                 monthSum |-> 0,             \* stream gains committed since the last rollover
                 savedAdv |-> storage # NoSave,  \* the same two, of the stored career
                 savedMonthSum |-> StoredMonthSum(storage),
                 fresh |-> FALSE,            \* only advanceTime calls since handleStartGame
                 k |-> 0,                    \* advanceTime commits while fresh
                 settled |-> 0,              \* rollover commits while fresh
                 nAdv |-> 0,                 \* advanceTime invocations so far
                 maxAdv |-> MaxAdvance,      \* and how many the session may make
                 nOps |-> 0,                 \* other handler invocations so far
                 nSessions |-> 0,            \* clicks on Book Session so far
                 maxSessions |-> MaxSessions, \* and how many the session may make
                 nRecord |-> 0,              \* clicks on Record so far
                 nReleases |-> 0,            \* clicks on Publish so far
                 nEvents |-> 0,              \* random events surfaced so far
                 maxEvents |-> MaxEvents ]   \* and how many the session may surface
    /\ last = [op |-> "init"]
    /\ studio = InitialStudio
    /\ activeFanInteraction = Null
    /\ browser = [quotaExceeded |-> FALSE, mounted |-> TRUE]

\* saveToStorage: the new value of localStorage[SAVE_KEY]
saveToStorage(state) == stringify(state)

\* localStorage.setItem(SAVE_KEY, text): it throws, and stores nothing, when the
\* quota is exceeded
setItem(text) == IF browser.quotaExceeded THEN storage ELSE text

\* the component body reads gameState.player on every render: without it the
\* render throws and no screen is left to click on
Renders(state) == "player" \in DOMAIN state

\* the main screen is shown and no modal covers it
Playing == ~isSetup /\ activeEvent = Null /\ Renders(gameState) /\ browser.mounted

handleStartGame ==
    /\ isSetup
    /\ browser.mounted
    /\ gameState' = NewCareer
    /\ isSetup' = FALSE
    /\ storage' = setItem(saveToStorage(NewCareer))
    /\ ghost' = [ghost EXCEPT !.adv = FALSE, !.monthSum = 0,
                              !.savedAdv = IF browser.quotaExceeded THEN @ ELSE FALSE,
                              !.savedMonthSum = IF browser.quotaExceeded THEN @ ELSE 0,
                              !.fresh = (calls = <<>>), !.k = 0, !.settled = 0]
    /\ last' = [op |-> "handleStartGame"]
    /\ UNCHANGED <<browser, studio, activeFanInteraction, pendingAwards, activeEvent, calls, nextId>>

handleContinue ==
    /\ isSetup
    /\ browser.mounted
    /\ LET savedState == loadFromStorage(storage)
       IN  /\ savedState # Null
           /\ gameState' = savedState
           /\ isSetup' = FALSE
    /\ ghost' = [ghost EXCEPT !.adv = ghost.savedAdv, !.monthSum = ghost.savedMonthSum,
                              !.maxAdv = MaxAdvanceLoaded, !.fresh = FALSE]
    /\ last' = [op |-> "handleContinue"]
    /\ UNCHANGED <<browser, studio, activeFanInteraction, storage, pendingAwards, activeEvent, calls, nextId>>

handleSaveAndQuit ==
    /\ Playing
    /\ ghost.nOps < MaxOps
    /\ storage' = setItem(saveToStorage(gameState))
    \* a throw of saveToStorage skips setIsSetup(true)
    /\ isSetup' = ~browser.quotaExceeded
    /\ ghost' = [ghost EXCEPT !.nOps = @ + 1, !.fresh = FALSE,
                              !.savedAdv = IF browser.quotaExceeded THEN @ ELSE ghost.adv,
                              !.savedMonthSum = IF browser.quotaExceeded THEN @ ELSE ghost.monthSum]
    /\ last' = [op |-> "handleSaveAndQuit"]
    /\ UNCHANGED <<browser, studio, activeFanInteraction, gameState, pendingAwards, activeEvent, calls, nextId>>

-----------------------------------------------------------------------------
(* advanceTime *)

RECURSIVE SumSeq(_)
SumSeq(s) == IF Len(s) = 0 THEN 0 ELSE s[1] + SumSeq(SubSeq(s, 2, Len(s)))

\* variant: s.slice(-n), the last n elements
LastN(s, n) == SubSeq(s, Max(1, Len(s) - n + 1), Len(s))

\* s.slice(0, n)
FirstN(s, n) == SubSeq(s, 1, Min(n, Len(s)))

\* (prev.songs.find(s => s.id === id)?.streams || 0)
OldStreams(songs, id) ==
    LET hits == {i \in 1..Len(songs) : songs[i].id = id}
    IN  IF hits = {} THEN 0 ELSE songs[CHOOSE i \in hits : \A j \in hits : i <= j].streams

\* updatedSongs = prev.songs.map(...), the multiplier of song i being us[i]
UpdatedSongs(prev, us) ==
    [i \in 1..Len(prev.songs) |->
        UpdateSong(prev.songs[i], prev.player, us[i], getStreamRate(prev.player.fans))]

\* the reduce over updatedSongs in the rollover branch
monthlyActivity(updatedSongs, prev) ==
    SumSeq([i \in 1..Len(updatedSongs) |->
              updatedSongs[i].streams - OldStreams(prev.songs, updatedSongs[i].id)])

\* the stream gain of each song in this step (history)
Gains(updatedSongs, prev) ==
    [i \in 1..Len(updatedSongs) |-> updatedSongs[i].streams - prev.songs[i].streams]

\* newNews after wonAwards.forEach(a => newNews.unshift(...)): the last award first
RECURSIVE UnshiftWinners(_, _)
UnshiftWinners(won, news) ==
    IF won = <<>> THEN news
    ELSE UnshiftWinners(Tail(won), <<"WINNER: " \o Head(won).category>> \o news)

\* variant: the weekly step also gives every song of the vault one stream
WeekStateVault(prev, updatedSongs) ==
    [prev EXCEPT
        !.currentWeek = prev.currentWeek + 1,
        !.player.fans = @ + FloorPct(prev.player.fans, 1),
        !.player.followers = [@ EXCEPT !.Instagram = FloorPct(@, 101),
                                       !.TikTok = FloorPct(@, 102)],
        !.songs = updatedSongs,
        !.unreleasedSongs = [i \in 1..Len(@) |-> [@[i] EXCEPT !.streams = @ + 1]],
        !.news = FirstN(@, 15)]

\* variant: the weekly step also grows the YouTube followers
WeekStateYouTube(prev, updatedSongs) ==
    [prev EXCEPT
        !.currentWeek = prev.currentWeek + 1,
        !.player.fans = @ + FloorPct(prev.player.fans, 1),
        !.player.followers = [@ EXCEPT !.Instagram = FloorPct(@, 101),
                                       !.TikTok = FloorPct(@, 102),
                                       !.YouTube = FloorPct(@, 102)],
        !.songs = updatedSongs,
        !.news = FirstN(@, 15)]

\* the else branch of advanceTime: nextWeek <= 4
WeekState(prev, updatedSongs) ==
    [prev EXCEPT
        !.currentWeek = prev.currentWeek + 1,
        !.player.fans = @ + FloorPct(prev.player.fans, 1),
        !.player.followers = [@ EXCEPT !.Instagram = FloorPct(@, 101),
                                       !.TikTok = FloorPct(@, 102)],
        !.songs = updatedSongs,
        !.news = FirstN(@, 15)]

royaltiesOf(prev, updatedSongs) ==
    TimesRate(monthlyActivity(updatedSongs, prev), getStreamRate(prev.player.fans),
              ShareOf(prev.player.labelId))

\* the branch nextWeek > 4 of advanceTime, once the Oracle has answered
RolloverState(prev, updatedSongs, newTrending, newOffers, wonAwards) ==
    LET k == Len(wonAwards)
        newFans == prev.player.fans + FloorPct(prev.player.fans, 5)
    IN  [prev EXCEPT
            !.currentDate = setMonthNext(prev.currentDate),
            !.currentWeek = 1,
            !.player.fame = @ + k * 500000,
            !.player.money = AmtAdd(AmtAdd(@, Dollars(k * 100000)), royaltiesOf(prev, updatedSongs)),
            !.player.fans = newFans,
            !.player.followers =
                [Instagram |-> FloorPct(@.Instagram, 105), TikTok |-> FloorPct(@.TikTok, 108),
                 YouTube |-> FloorPct(@.YouTube, 103), Spotify |-> FloorPct(@.Spotify, 104),
                 AppleMusic |-> FloorPct(@.AppleMusic, 102)],
            !.songs = updatedSongs,
            !.awards = @ \o wonAwards,
            !.news = FirstN(UnshiftWinners(wonAwards, @), 15),
            !.history = Append(@, [month |-> Len(@), fans |-> newFans]),
            !.trendingTopics = newTrending,
            !.activeOffers = newOffers]

RemoveAt(s, i) == SubSeq(s, 1, i - 1) \o SubSeq(s, i + 1, Len(s))

\* variants: the test off by one, either way
isMonthRolloverLate(nextWeek) == nextWeek > 5
isMonthRolloverEarly(nextWeek) == nextWeek >= 4

\* if (nextWeek > 4), nextWeek being prev.currentWeek + 1
isMonthRollover(nextWeek) == nextWeek > 4

\* variant: the offer pushed at the end, the list cut from the front
newOffersPushed(offer, activeOffers) ==
    LET all == activeOffers \o <<offer>>
    IN  SubSeq(all, Max(1, Len(all) - 2), Len(all))

\* [offer, ...prev.activeOffers].slice(0, 3)
newOffersWith(offer, activeOffers) == FirstN(<<offer>> \o activeOffers, 3)

\* a click on Next Week when nextWeek <= 4: no await, one step
advanceTimeWeek ==
    /\ Playing
    /\ ghost.nAdv < ghost.maxAdv
    /\ ~isMonthRollover(gameState.currentWeek + 1)
    /\ \E us \in MultiplierVectors(Len(gameState.songs)) :
        LET prev == gameState
            updatedSongs == UpdatedSongs(prev, us)
            nextState == WeekState(prev, updatedSongs)
            sum == SumSeq(Gains(updatedSongs, prev))
        IN  /\ gameState' = nextState
            /\ storage' = setItem(saveToStorage(nextState))
            /\ ghost' = [ghost EXCEPT !.nAdv = @ + 1, !.adv = TRUE, !.monthSum = @ + sum,
                                      !.savedAdv = IF browser.quotaExceeded THEN @ ELSE TRUE,
                                      !.savedMonthSum = IF browser.quotaExceeded THEN @
                                                        ELSE ghost.monthSum + sum,
                                      !.k = IF ghost.fresh THEN @ + 1 ELSE @]
            /\ last' = [op |-> "advanceTime", prev |-> prev, before |-> prev, rollover |-> FALSE,
                        gains |-> Gains(updatedSongs, prev), monthlyActivity |-> 0,
                        monthSum |-> ghost.monthSum + sum, won |-> 0, offer |-> Null,
                        trending |-> Null, event |-> 0, closurePending |-> pendingAwards,
                        saveFailed |-> browser.quotaExceeded, committed |-> nextState]
    /\ UNCHANGED <<browser, studio, activeFanInteraction, isSetup, pendingAwards, activeEvent, calls, nextId>>

\* a click on Next Week when nextWeek > 4: the call computes updatedSongs
\* and suspends in await generateTrendingTopics()
advanceTimeRollover ==
    /\ Playing
    /\ ghost.nAdv < ghost.maxAdv
    /\ Len(calls) < MaxInFlight
    /\ isMonthRollover(gameState.currentWeek + 1)
    /\ \E us \in MultiplierVectors(Len(gameState.songs)) :
        calls' = Append(calls, [op |-> "advanceTime", phase |-> "trending", prev |-> gameState,
                                pendingAwards |-> pendingAwards,
                                updatedSongs |-> UpdatedSongs(gameState, us),
                                newTrending |-> gameState.trendingTopics,
                                trendingFailed |-> FALSE])
    /\ ghost' = [ghost EXCEPT !.nAdv = @ + 1]
    /\ last' = [op |-> "advanceTime.await"]
    /\ UNCHANGED <<browser, studio, activeFanInteraction, isSetup, gameState, storage, pendingAwards, activeEvent, nextId>>

\* the rest of the rollover branch, from the awards check to saveToStorage
RolloverCommit(i, newTrending, newOffers, offer, failed) ==
    LET c == calls[i]
        prev == c.prev
        wonAwards == IF prev.currentDate.month = 11 THEN runAwardsSeason(prev, nextId + 1) ELSE <<>>
        nextState == RolloverState(prev, c.updatedSongs, newTrending, newOffers, wonAwards)
        sum == SumSeq(Gains(c.updatedSongs, prev))
    IN  \* a state update of an unmounted component is ignored
        /\ browser.mounted
        /\ gameState' = nextState
        /\ storage' = setItem(saveToStorage(nextState))
        /\ pendingAwards' = IF Len(wonAwards) > 0 THEN [awards |-> wonAwards] ELSE pendingAwards
        /\ calls' = RemoveAt(calls, i)
        /\ nextId' = nextId + 3
        \* Math.random() < 0.45 && !pendingAwards, pendingAwards being the closure's;
        \* ev = 0: no event, else RANDOM_EVENTS[ev - 1]
        /\ \E ev \in {0} \cup (IF c.pendingAwards = Null /\ ghost.nEvents < ghost.maxEvents THEN 1..3 ELSE {}) :
            /\ activeEvent' = IF ev = 0 THEN activeEvent ELSE [event |-> ev, resolved |-> FALSE]
            /\ ghost' = [ghost EXCEPT !.adv = TRUE, !.monthSum = 0,
                                      !.savedAdv = IF browser.quotaExceeded THEN @ ELSE TRUE,
                                      !.savedMonthSum = IF browser.quotaExceeded THEN @ ELSE 0,
                                      !.nEvents = IF ev = 0 THEN @ ELSE @ + 1,
                                      !.k = IF ghost.fresh THEN @ + 1 ELSE @,
                                      !.settled = IF ghost.fresh THEN @ + 1 ELSE @]
            /\ last' = [op |-> "advanceTime", prev |-> prev, before |-> gameState, rollover |-> TRUE,
                        gains |-> Gains(c.updatedSongs, prev),
                        monthlyActivity |-> monthlyActivity(c.updatedSongs, prev),
                        monthSum |-> ghost.monthSum + sum, won |-> Len(wonAwards), offer |-> offer,
                        trending |-> newTrending, event |-> ev, closurePending |-> c.pendingAwards,
                        failed |-> failed,
                        saveFailed |-> browser.quotaExceeded, committed |-> nextState]
        /\ UNCHANGED <<browser, isSetup, studio, activeFanInteraction>>

\* generateTrendingTopics answers (the Oracle's list or the fallback); then
\* Math.random() < 0.6 decides whether the call suspends again for an offer
advanceTimeTrending(i) ==
    /\ calls[i].op = "advanceTime"
    /\ calls[i].phase = "trending"
    /\ \E answer \in OracleTrending \cup {NoAnswer}, wantOffer \in BOOLEAN :
        LET newTrending == generateTrendingTopics(answer) IN
        IF wantOffer
        THEN /\ calls' = [calls EXCEPT ![i] = [@ EXCEPT !.phase = "offer", !.newTrending = newTrending,
                                                        !.trendingFailed = (answer = NoAnswer)]]
             /\ last' = [op |-> "advanceTime.await"]
             /\ UNCHANGED <<browser, studio, activeFanInteraction, isSetup, gameState, storage, pendingAwards, activeEvent, nextId, ghost>>
        ELSE RolloverCommit(i, newTrending, calls[i].prev.activeOffers, Null,
                            [trending |-> answer = NoAnswer, offer |-> FALSE])

\* generateSponsoredOffer answers: the Oracle's offer with a fresh id, or the fallback
advanceTimeOffer(i) ==
    /\ calls[i].op = "advanceTime"
    /\ calls[i].phase = "offer"
    /\ \E answer \in OracleOffers \cup {Null} :
        LET offer == generateSponsoredOffer(answer, nextId) @@ [added |-> nextId]
        IN  RolloverCommit(i, calls[i].newTrending,
                           newOffersWith(offer, calls[i].prev.activeOffers), offer,
                           [trending |-> calls[i].trendingFailed, offer |-> answer = Null])

-----------------------------------------------------------------------------
(* Action handlers *)

\* new Date(): the wall clock, which the game never advances
WallClock == Date(2026, 0)

\* handleAcceptDeal(deal), deal being one of the offers on screen: no await
handleAcceptDeal(j) ==
    /\ Playing
    /\ ghost.nOps < MaxOps
    /\ j \in 1..Len(gameState.activeOffers)
    /\ LET deal == gameState.activeOffers[j]
           fanGain == FloorPct(gameState.player.fans, 2)
           newPost == [id |-> RandomId(nextId), platform |-> "Instagram", type |-> "Sponsored",
                       likes |-> fanGain \div 2, timestamp |-> WallClock,
                       impact |-> [fans |-> fanGain, fame |-> fanGain * 2]]
       IN  /\ gameState' =
                [gameState EXCEPT
                    !.player.money = AmtAdd(@, Dollars(deal.payout)),
                    !.player.skills.charisma = Max(0, @ - deal.charismaPenalty),
                    !.socialPosts = <<newPost>> \o @,
                    !.activeOffers = SelectSeq(@, LAMBDA o : o.id # deal.id)]
           /\ last' = [op |-> "handleAcceptDeal", before |-> gameState, deal |-> deal]
    /\ nextId' = nextId + 1
    /\ ghost' = [ghost EXCEPT !.nOps = @ + 1, !.fresh = FALSE]
    /\ UNCHANGED <<browser, studio, activeFanInteraction, isSetup, storage, pendingAwards, activeEvent, calls>>

\* produceMusicVideo(song), up to await generateThumbnail(...)
produceMusicVideo(j) ==
    /\ Playing
    /\ ghost.nOps < MaxOps
    /\ Len(calls) < MaxInFlight
    /\ j \in 1..Min(MaxSongPick, Len(gameState.songs))
    /\ ~AmtLess(gameState.player.money, 15000)
    /\ calls' = Append(calls, [op |-> "produceMusicVideo", phase |-> "thumbnail",
                               prev |-> gameState, song |-> gameState.songs[j]])
    /\ ghost' = [ghost EXCEPT !.nOps = @ + 1, !.fresh = FALSE]
    /\ last' = [op |-> "produceMusicVideo.await"]
    /\ UNCHANGED <<browser, studio, activeFanInteraction, isSetup, gameState, storage, pendingAwards, activeEvent, nextId>>

\* produceMusicVideo after the await: the functional update of gameState
produceMusicVideoCommit(i) ==
    /\ calls[i].op = "produceMusicVideo"
    /\ LET c == calls[i]
           song == c.song
           cost == 15000
           fanGain == FloorPct(c.prev.player.fans, 10) + 20000
           fameGain == song.quality * 2000
           releasePost == [id |-> RandomId(nextId), platform |-> "YouTube", type |-> "Music Video",
                           likes |-> fanGain * 3, timestamp |-> WallClock,
                           impact |-> [fans |-> fanGain, fame |-> fameGain]]
           newState ==
                [gameState EXCEPT
                    !.player.money = AmtAdd(@, Dollars(0 - cost)),
                    !.player.fans = @ + fanGain,
                    !.player.fame = @ + fameGain,
                    !.player.followers.YouTube = @ + FloorPct(fanGain, 40),
                    !.songs = [n \in 1..Len(@) |->
                                 IF @[n].id = song.id THEN [@[n] EXCEPT !.isMusicVideo = TRUE] ELSE @[n]],
                    !.socialPosts = <<releasePost>> \o @,
                    !.news = FirstN(<<"visuals are breaking the internet">> \o @, 15)]
       IN  \* saveToStorage(newState) is called inside the updater given to
           \* setGameState: when it throws, the updater returns no state, the error
           \* is thrown by the render that runs the updater, and React unmounts
           \* the tree
           /\ browser.mounted
           /\ gameState' = IF browser.quotaExceeded THEN gameState ELSE newState
           /\ storage' = setItem(saveToStorage(newState))
           /\ browser' = [browser EXCEPT !.mounted = ~browser.quotaExceeded]
           /\ last' = [op |-> "produceMusicVideo", before |-> gameState, prev |-> c.prev,
                       saveFailed |-> browser.quotaExceeded, committed |-> newState]
    /\ calls' = RemoveAt(calls, i)
    /\ nextId' = nextId + 1
    /\ ghost' = [ghost EXCEPT !.savedAdv = IF browser.quotaExceeded THEN @ ELSE ghost.adv,
                              !.savedMonthSum = IF browser.quotaExceeded THEN @ ELSE ghost.monthSum]
    /\ UNCHANGED <<studio, activeFanInteraction, isSetup, pendingAwards, activeEvent>>

\* RANDOM_EVENTS[ev].options[opt].effect(state), lucky being the Math.random() roll:
\* the player after {...player, ...playerUpdate, skills: {...skills, ...playerUpdate.skills}}
EventEffect(ev, opt, lucky, state) ==
    LET p == state.player
    IN  CASE ev = 1 /\ opt = 1 -> [p EXCEPT !.skills.charisma = @ + 2]
          [] ev = 1 /\ opt = 2 ->
                IF lucky THEN [p EXCEPT !.fans = @ + 15000, !.fame = @ + 100000]
                ELSE [p EXCEPT !.fans = Max(0, @ - 5000), !.skills.charisma = Max(0, @ - 5)]
          [] ev = 2 /\ opt = 1 -> [p EXCEPT !.fans = @ + 50000, !.followers.TikTok = @ + 10000]
          [] ev = 2 /\ opt = 2 -> [p EXCEPT !.skills.charisma = @ + 5, !.fans = @ + 10000]
          [] ev = 3 /\ opt = 1 -> [p EXCEPT !.skills.songwriting = @ + 5, !.fans = @ + 2000]
          [] ev = 3 /\ opt = 2 ->
                IF lucky THEN [p EXCEPT !.fame = @ + 1000]
                ELSE [p EXCEPT !.fans = Max(0, @ - 10000), !.fame = Max(0, @ - 50000)]

\* the options whose effect rolls Math.random()
Rolls(ev, opt) == IF opt = 2 /\ ev \in {1, 3} THEN BOOLEAN ELSE {TRUE}

\* a click on one of the two options of the event modal
handleEventChoice(opt) ==
    /\ ~isSetup
    /\ activeEvent # Null
    /\ ~activeEvent.resolved
    /\ browser.mounted
    /\ browser.quotaExceeded => ghost.nOps < MaxOps
    /\ \E lucky \in Rolls(activeEvent.event, opt) :
        LET nextState == [gameState EXCEPT !.player = EventEffect(activeEvent.event, opt, lucky, gameState)]
        IN  /\ gameState' = nextState
            /\ storage' = setItem(saveToStorage(nextState))
    \* a throw of saveToStorage skips setActiveEvent({...activeEvent, resultNarrative})
    /\ activeEvent' = IF browser.quotaExceeded THEN activeEvent
                      ELSE [activeEvent EXCEPT !.resolved = TRUE]
    /\ ghost' = [ghost EXCEPT !.savedAdv = IF browser.quotaExceeded THEN @ ELSE ghost.adv,
                              !.savedMonthSum = IF browser.quotaExceeded THEN @ ELSE ghost.monthSum,
                              !.nOps = IF browser.quotaExceeded THEN @ + 1 ELSE @,
                              !.fresh = FALSE]
    /\ last' = [op |-> "handleEventChoice", before |-> gameState]
    /\ UNCHANGED <<browser, studio, activeFanInteraction, isSetup, pendingAwards, calls, nextId>>

\* the Continue button of the event modal: setActiveEvent(null)
dismissEvent ==
    /\ ~isSetup
    /\ browser.mounted
    /\ activeEvent # Null
    /\ activeEvent.resolved
    /\ activeEvent' = Null
    /\ last' = [op |-> "dismissEvent"]
    /\ UNCHANGED <<browser, studio, activeFanInteraction, isSetup, gameState, storage, pendingAwards, calls, nextId, ghost>>

-----------------------------------------------------------------------------

\* the calendar alone: the setup screen, the Next Week button and the event modal
NextTime ==
    \/ handleStartGame
    \/ handleContinue
    \/ advanceTimeWeek
    \/ advanceTimeRollover
    \/ \E i \in 1..Len(calls) : advanceTimeTrending(i)
    \/ \E i \in 1..Len(calls) : advanceTimeOffer(i)
    \/ \E opt \in 1..2 : handleEventChoice(opt)
    \/ dismissEvent

SpecTime == Init /\ [][NextTime]_vars

\* a suspended advanceTime resumes: the Oracle call it awaits settles, with an
\* answer or without one
OracleSettles == \E i \in 1..Len(calls) : advanceTimeTrending(i) \/ advanceTimeOffer(i)

\* a session that opens without a save, so that the career is a new one
InitNoSave == Init /\ storage = NoSave

NextNewCareer ==
    \/ handleStartGame
    \/ advanceTimeWeek
    \/ advanceTimeRollover
    \/ OracleSettles
    \/ \E opt \in 1..2 : handleEventChoice(opt)
    \/ dismissEvent

\* every Oracle call settles in the end
SpecTimeFair == InitNoSave /\ [][NextNewCareer]_vars /\ WF_vars(OracleSettles)

\* a stored career made on events alone: no song was ever released, and in each
\* of the 59 months since January 2025 the rollover surfaced Clap Back and the
\* clap back went viral (fans + 15,000, fame + 100,000); the weeks added 1% to
\* the fans, the rollovers 5%, and the save dates from the third week of
\* December 2029
InitLaureate ==
    LET \* the fans pushed to history, one sample per rollover after the first
        fans ==
        << 100, 109, 16344, 33906, 52905, 73459,
           95694, 119749, 145771, 173923, 204379, 237325,
           272967, 311525, 353237, 398363, 447180, 499992,
           557124, 618931, 685794, 758128, 836380, 921033,
           1012613, 1111686, 1218865, 1334813, 1460248, 1595946,
           1742745, 1901555, 2073358, 2259217, 2460283, 2677799,
           2913111, 3167675, 3443067, 3740990, 4063287, 4411954,
           4789148, 5197202, 5638642, 6116198, 6632826, 7191724,
           7796347, 8450438, 9158044, 9923544, 10751675, 11647559,
           12616741, 13665218, 14799478, 16026538, 17353991, 18790051 >>
        career ==
            [NewCareer EXCEPT
                !.player.fans = 19183032,
                !.player.fame = 59 * 100000,
                !.player.followers = [Instagram |-> 2229, TikTok |-> 196629, YouTube |-> 20,
                                      Spotify |-> 10, AppleMusic |-> 5],
                !.currentDate = Date(2029, 11),
                !.currentWeek = 3,
                !.trendingTopics = FallbackTrending,
                !.history = [i \in 1..60 |-> [month |-> i - 1, fans |-> fans[i]]]]
    IN  /\ isSetup = TRUE
        /\ gameState = DefaultGameState
        /\ storage = stringify(career)
        /\ pendingAwards = Null
        /\ activeEvent = Null
        /\ calls = <<>>
        /\ nextId = 1
        /\ ghost = [ adv |-> FALSE, monthSum |-> 0, savedAdv |-> TRUE, savedMonthSum |-> 0,
                     fresh |-> FALSE, k |-> 0, settled |-> 0, nAdv |-> 0, maxAdv |-> MaxAdvance,
                     nOps |-> 0, nSessions |-> 0, maxSessions |-> MaxSessions, nRecord |-> 0,
                     nReleases |-> 0, nEvents |-> 0, maxEvents |-> MaxEvents ]
        /\ last = [op |-> "init"]
        /\ studio = InitialStudio
        /\ activeFanInteraction = Null
        /\ browser = [quotaExceeded |-> FALSE, mounted |-> TRUE]

\* the calendar of that career, every Oracle call settling in the end
SpecLaureate == InitLaureate /\ [][NextTime]_vars /\ WF_vars(OracleSettles)

\* a loaded career whose session may surface one random event more, so that a
\* second event can arrive while the first is on screen
InitEvents ==
    /\ isSetup = TRUE
    /\ gameState = DefaultGameState
    /\ storage = stringify(RisingCareer)
    /\ pendingAwards = Null
    /\ activeEvent = Null
    /\ calls = <<>>
    /\ nextId = 1
    /\ ghost = [ adv |-> FALSE, monthSum |-> 0,
                 savedAdv |-> TRUE, savedMonthSum |-> StoredMonthSum(storage),
                 fresh |-> FALSE, k |-> 0, settled |-> 0, nAdv |-> 0, maxAdv |-> MaxAdvance,
                 nOps |-> 0, nSessions |-> 0, maxSessions |-> MaxSessions, nRecord |-> 0, nReleases |-> 0,
                 nEvents |-> 0, maxEvents |-> MaxEvents + 1 ]
    /\ last = [op |-> "init"]
    /\ studio = InitialStudio
    /\ activeFanInteraction = Null
    /\ browser = [quotaExceeded |-> FALSE, mounted |-> TRUE]

SpecEvents == InitEvents /\ [][NextTime]_vars

\* every handler
Next ==
    \/ handleStartGame
    \/ handleContinue
    \/ handleSaveAndQuit
    \/ advanceTimeWeek
    \/ advanceTimeRollover
    \/ \E i \in 1..Len(calls) : advanceTimeTrending(i)
    \/ \E i \in 1..Len(calls) : advanceTimeOffer(i)
    \/ \E j \in 1..3 : handleAcceptDeal(j)
    \/ \E j \in 1..MaxSongPick : produceMusicVideo(j)
    \/ \E i \in 1..Len(calls) : produceMusicVideoCommit(i)
    \/ \E opt \in 1..2 : handleEventChoice(opt)
    \/ dismissEvent

Spec == Init /\ [][Next]_vars

-----------------------------------------------------------------------------
(* Loading: what localStorage can hold under the save key when the page     *)
(* opens.  Besides a career this program saved, the key can hold text that   *)
(* is not JSON, JSON that is not an object, an object with only some of the  *)
(* fields of a career, and a career saved before the vault and the social    *)
(* feed existed.                                                             *)

CorruptText == [text |-> "{stageName:"]
JsonPrimitives == {[json |-> "null"], [json |-> "42"]}
PartialSave == [currentWeek |-> 2, history |-> <<>>]
LegacySave ==
    LET saved == stringify(RisingCareer)
    IN  [f \in (DOMAIN saved) \ {"unreleasedSongs", "socialPosts"} |-> saved[f]]

StoredValues ==
    {NoSave, CorruptText, PartialSave, LegacySave, stringify(RisingCareer)} \cup JsonPrimitives

\* the fields every screen and handler reads: those of the initial state
Complete(state) == DOMAIN DefaultGameState \subseteq DOMAIN state

InitLoad ==
    /\ isSetup = TRUE
    /\ gameState = DefaultGameState
    /\ storage \in StoredValues
    /\ pendingAwards = Null
    /\ activeEvent = Null
    /\ calls = <<>>
    /\ nextId = 1
    /\ ghost = [ adv |-> FALSE, monthSum |-> 0,
                 savedAdv |-> storage \in {LegacySave, stringify(RisingCareer)},
                 savedMonthSum |-> IF storage \in {LegacySave, stringify(RisingCareer)}
                                   THEN StoredMonthSum(stringify(RisingCareer)) ELSE 0,
                 fresh |-> FALSE, k |-> 0, settled |-> 0, nAdv |-> 0, maxAdv |-> MaxAdvance,
                 nOps |-> 0, nSessions |-> 0, maxSessions |-> MaxSessions, nRecord |-> 0, nReleases |-> 0, nEvents |-> 0, maxEvents |-> MaxEvents ]
    /\ last = [op |-> "init"]
    /\ studio = InitialStudio
    /\ activeFanInteraction = Null
    /\ browser = [quotaExceeded |-> FALSE, mounted |-> TRUE]

NextLoad ==
    \/ NextTime
    \/ handleSaveAndQuit

SpecLoad == InitLoad /\ [][NextLoad]_vars

-----------------------------------------------------------------------------
(* The studio: a session is booked, drafted, paid, recorded with            *)
(* SESSION_NOTES_REQUIRED taps and mastered into the vault                  *)

MaxRecord == 2        \* clicks on Record
MaxTaps == 6          \* taps accepted into miniGameScore before the model stops tapping

\* constants.ts is not part of the sources: a catalog with the fields used
\* here, an affordable feature and a star whose bonus reaches the cap of 20
REAL_ARTISTS_DATA ==
    << [name |-> "Nova",  cost |-> 1000,  fame |-> 5 * (Million \div 2)],
       [name |-> "Titan", cost |-> 50000, fame |-> 50 * Million] >>

\* REAL_ARTISTS_DATA.find(a => a.name === name)
FindArtist(name) ==
    LET hits == {i \in 1..Len(REAL_ARTISTS_DATA) : REAL_ARTISTS_DATA[i].name = name}
    IN  IF hits = {} THEN Null
        ELSE REAL_ARTISTS_DATA[CHOOSE i \in hits : \A j \in hits : i <= j]

\* Math.floor(base * (0.8 + Math.random() * 0.4)), r being Math.random() in hundredths
sessionCostOf(base, r) == (base * (8000 + 40 * r)) \div 10000

\* the two ends of Math.random()
RandomRolls == {0, 99}

\* the contents the drafting form can be given
DraftForms ==
    { [title |-> "Anthem", feature |-> "",      useGhostwriter |-> FALSE],
      [title |-> "Anthem", feature |-> "Nova",  useGhostwriter |-> TRUE],
      [title |-> "Anthem", feature |-> "Titan", useGhostwriter |-> TRUE] }

\* the scores a tap can give: Math.max(0, 100 - Math.abs(50 - sliderPos) * 2)
TapScores == {0, 100}

\* variant: the featured artist's fee is left out
totalSessionCostNoFeature(st) ==
    st.sessionCosts.rent + (IF st.draftForm.useGhostwriter THEN st.sessionCosts.ghostwriter ELSE 0)

\* useMemo totalSessionCost
totalSessionCost(st) ==
    LET artist == FindArtist(st.draftForm.feature)
    IN  st.sessionCosts.rent
        + (IF st.draftForm.useGhostwriter THEN st.sessionCosts.ghostwriter ELSE 0)
        + (IF st.draftForm.feature # "" /\ artist # Null THEN artist.cost ELSE 0)

\* saveToVault's quality before the clamp, with r = Math.random() * 5 in
\* hundredths: floor(baseQuality * 0.7 + performanceBonus * 0.3 + r / 100),
\* computed over the common denominator 3000 * n; NaN for an empty score list
rawQuality(skills, form, scores, r) ==
    IF Len(scores) = 0 THEN NaN
    ELSE LET n == Len(scores)
             S == skills.songwriting + skills.production + skills.vocals
             g == IF form.useGhostwriter THEN 1 ELSE 0
             artist == FindArtist(form.feature)
             F == IF form.feature # "" /\ artist # Null
                  THEN Min(2000, artist.fame \div 5000)     \* min(20, fame / 500000) * 100
                  ELSE 0
         IN  (n * (700 * S + 31500 * g + 21 * F + 30 * r) + 900 * SumSeq(scores)) \div (3000 * n)

\* Math.min(100, quality); Math.min(100, NaN) is NaN
clampQuality(q) == IF q = NaN THEN NaN ELSE Min(100, q)

\* Book Session
startDrafting ==
    /\ Playing
    /\ studio.recordingPhase = "idle"
    /\ ghost.nSessions < ghost.maxSessions
    /\ \E r \in RandomRolls :
         studio' = [studio EXCEPT
                       !.sessionCosts = [rent |-> sessionCostOf(BASE_STUDIO_RENT, r),
                                         ghostwriter |-> sessionCostOf(BASE_GHOSTWRITER_FEE, r)],
                       !.draftForm = [title |-> "", feature |-> "", useGhostwriter |-> FALSE],
                       !.recordingPhase = "drafting"]
    /\ last' = [op |-> "startDrafting"]
    /\ ghost' = [ghost EXCEPT !.nSessions = @ + 1, !.fresh = FALSE]
    /\ UNCHANGED <<browser, isSetup, gameState, storage, pendingAwards, activeEvent, calls, nextId,
                   activeFanInteraction>>

\* the drafting form is filled in: setDraftForm({...draftForm, ...})
setDraftForm(form) ==
    /\ Playing
    /\ studio.recordingPhase = "drafting"
    /\ form # studio.draftForm
    /\ studio' = [studio EXCEPT !.draftForm = form]
    /\ last' = [op |-> "setDraftForm"]
    /\ UNCHANGED <<browser, isSetup, gameState, storage, pendingAwards, activeEvent, calls, nextId, ghost,
                   activeFanInteraction>>

\* startRecording, up to await generateSongLyrics(...): the funds are checked
\* against the gameState and totalSessionCost of the render that was clicked
startRecording ==
    /\ Playing
    /\ studio.recordingPhase = "drafting"
    /\ ghost.nRecord < MaxRecord
    /\ Len(calls) < MaxInFlight
    /\ LET cost == totalSessionCost(studio)
       IN  IF AmtLess(gameState.player.money, cost)
           THEN /\ last' = [op |-> "startRecording", before |-> gameState, cost |-> cost,
                            rejected |-> TRUE, form |-> studio.draftForm,
                            sessionCosts |-> studio.sessionCosts]
                /\ UNCHANGED calls
           ELSE /\ calls' = Append(calls, [op |-> "startRecording", phase |-> "lyrics",
                                           prev |-> gameState, cost |-> cost,
                                           form |-> studio.draftForm,
                                           sessionCosts |-> studio.sessionCosts])
                /\ last' = [op |-> "startRecording.await"]
    /\ ghost' = [ghost EXCEPT !.nRecord = @ + 1, !.fresh = FALSE]
    /\ UNCHANGED <<browser, isSetup, gameState, storage, pendingAwards, activeEvent, nextId,
                   studio, activeFanInteraction>>

\* generateSongLyrics answers: the session is paid by a functional update,
\* the scores are emptied and the recording phase starts
startRecordingCommit(i) ==
    /\ calls[i].op = "startRecording"
    /\ browser.mounted
    /\ gameState' = [gameState EXCEPT !.player.money = AmtAdd(@, Dollars(0 - calls[i].cost))]
    /\ studio' = [studio EXCEPT !.miniGameScore = <<>>, !.recordingPhase = "recording"]
    /\ last' = [op |-> "startRecording", before |-> gameState, cost |-> calls[i].cost,
                rejected |-> FALSE, form |-> calls[i].form,
                sessionCosts |-> calls[i].sessionCosts]
    /\ calls' = RemoveAt(calls, i)
    /\ UNCHANGED <<browser, isSetup, storage, pendingAwards, activeEvent, nextId, ghost,
                   activeFanInteraction>>

\* handleTap: the score is appended; from the 5th score on, every tap
\* schedules setRecordingPhase('results') one second later
handleTap ==
    /\ Playing
    /\ studio.recordingPhase = "recording"
    /\ Len(studio.miniGameScore) < MaxTaps
    /\ \E score \in TapScores :
        LET newScores == Append(studio.miniGameScore, score)
        IN  studio' = [studio EXCEPT
                          !.miniGameScore = newScores,
                          !.timers = IF Len(newScores) >= SESSION_NOTES_REQUIRED THEN @ + 1 ELSE @]
    /\ last' = [op |-> "handleTap"]
    /\ UNCHANGED <<browser, isSetup, gameState, storage, pendingAwards, activeEvent, calls, nextId, ghost,
                   activeFanInteraction>>

\* a scheduled callback runs: setRecordingPhase('results')
tapTimeout ==
    /\ studio.timers > 0
    /\ browser.mounted
    /\ studio' = [studio EXCEPT !.timers = @ - 1, !.recordingPhase = "results"]
    /\ last' = [op |-> "tapTimeout"]
    /\ UNCHANGED <<browser, isSetup, gameState, storage, pendingAwards, activeEvent, calls, nextId, ghost,
                   activeFanInteraction>>

\* Finalize Master: saveToVault; without a title it returns at once
saveToVault ==
    /\ Playing
    /\ studio.recordingPhase = "results"
    /\ IF studio.draftForm.title = ""
       THEN /\ last' = [op |-> "saveToVault", before |-> gameState, saved |-> FALSE]
            /\ UNCHANGED <<browser, gameState, storage, studio, nextId, ghost>>
       ELSE \E r \in {0, 499} :
            LET quality == rawQuality(gameState.player.skills, studio.draftForm,
                                      studio.miniGameScore, r)
                newSong == [Song(RandomId(nextId), studio.draftForm.title, 0,
                                 gameState.currentDate, 0, getStreamRate(0), FALSE)
                                EXCEPT !.quality = clampQuality(quality)]
                nextState == [gameState EXCEPT
                                 !.unreleasedSongs = <<newSong>> \o @,
                                 !.news = FirstN(<<"Session wrapped">> \o @, 15)]
            IN  /\ gameState' = nextState
                /\ storage' = setItem(saveToStorage(nextState))
                \* a throw of saveToStorage skips setRecordingPhase('idle')
                /\ studio' = IF browser.quotaExceeded THEN studio
                             ELSE [studio EXCEPT !.recordingPhase = "idle"]
                /\ nextId' = nextId + 1
                /\ ghost' = [ghost EXCEPT
                                !.savedAdv = IF browser.quotaExceeded THEN @ ELSE ghost.adv,
                                !.savedMonthSum = IF browser.quotaExceeded THEN @ ELSE ghost.monthSum,
                                !.fresh = FALSE]
                /\ last' = [op |-> "saveToVault", before |-> gameState, saved |-> TRUE,
                            scores |-> studio.miniGameScore, song |-> newSong,
                            saveFailed |-> browser.quotaExceeded, committed |-> nextState]
    /\ UNCHANGED <<browser, isSetup, pendingAwards, activeEvent, calls, activeFanInteraction>>

-----------------------------------------------------------------------------
(* The vault: Publish distributes an unreleased song; a release can bring a *)
(* fan interaction                                                          *)

MaxReleases == 2      \* clicks on Publish per session of the program

\* the platforms the vault is published from (activePlatform)
ReleasePlatforms == {"YouTube", "Spotify"}

\* cost = 15000 for YouTube, 250 otherwise
distributionCost(platform) == IF platform = "YouTube" THEN 15000 ELSE 250

\* calculateSongImpact's fallback: Math.floor((quality / 100) * (currentFans * 0.2) + 500)
fallbackGain(quality, currentFans) == (quality * currentFans) \div 500 + 500

\* the fanGain calculateSongImpact can answer: the Oracle's integer or the fallback
ImpactGains(quality, currentFans) == {1200, fallbackGain(quality, currentFans)}

\* what generateFanInteraction can answer: an interaction whose options
\* carry any bonusType of the schema and any integer bonusValue
FanInteractions ==
    { [ username |-> "superfan",
        options |-> << [bonusType |-> "fans",     bonusValue |-> 500],
                       [bonusType |-> "money",    bonusValue |-> 100],
                       [bonusType |-> "charisma", bonusValue |-> 0 - 100],
                       [bonusType |-> "fame",     bonusValue |-> 0 - 200000] >> ] }

\* distributeSong(song, platform), up to its awaits.  The funds are checked
\* against the gameState of the render that was clicked (for YouTube after
\* await generateThumbnail, on the same captured value).
distributeSong(j, platform) ==
    /\ Playing
    /\ ghost.nReleases < MaxReleases
    /\ Len(calls) < MaxInFlight
    /\ j \in 1..Min(MaxSongPick, Len(gameState.unreleasedSongs))
    /\ gameState.unreleasedSongs[j].quality # NaN     \* arithmetic on NaN is not followed
    /\ LET song == gameState.unreleasedSongs[j]
           cost == distributionCost(platform)
       IN  IF AmtLess(gameState.player.money, cost)
           THEN /\ last' = [op |-> "distributeSong", before |-> gameState, cost |-> cost,
                            rejected |-> TRUE]
                /\ UNCHANGED calls
           ELSE /\ calls' = Append(calls, [op |-> "distributeSong", phase |-> "impact",
                                           prev |-> gameState, song |-> song,
                                           platform |-> platform, cost |-> cost])
                /\ last' = [op |-> "distributeSong.await"]
    /\ ghost' = [ghost EXCEPT !.nReleases = @ + 1, !.fresh = FALSE]
    /\ UNCHANGED <<browser, isSetup, gameState, storage, pendingAwards, activeEvent, nextId,
                   studio, activeFanInteraction>>

\* variant: a YouTube release brings the fame of any other release
releasedFlatFame(prev, c, fanGain, id) ==
    [prev EXCEPT
        !.player.money = AmtAdd(@, Dollars(0 - c.cost)),
        !.player.fans = @ + (IF c.platform = "YouTube" THEN fanGain * 2 ELSE fanGain),
        !.player.fame = @ + c.song.quality * 1000,
        !.player.followers[c.platform] = @ + (fanGain \div 5),
        !.songs = <<[c.song EXCEPT !.releaseDate = c.prev.currentDate,
                                   !.isMusicVideo = c.platform = "YouTube"]>> \o @,
        !.unreleasedSongs = SelectSeq(@, LAMBDA s : s.id # c.song.id),
        !.socialPosts = <<[id |-> RandomId(id), platform |-> c.platform,
                           type |-> IF c.platform = "YouTube" THEN "Music Video" ELSE "Audio Release",
                           likes |-> (fanGain * 5) \div 2, timestamp |-> WallClock,
                           impact |-> [fans |-> fanGain, fame |-> c.song.quality * 100]]>> \o @,
        !.news = FirstN(<<"industry news">> \o @, 15)]

\* the updater of distributeSong applied to prev
released(prev, c, fanGain, id) ==
    LET song == c.song
        youTube == c.platform = "YouTube"
        updatedSong == [song EXCEPT !.releaseDate = c.prev.currentDate, !.isMusicVideo = youTube]
        releasePost == [id |-> RandomId(id), platform |-> c.platform,
                        type |-> IF youTube THEN "Music Video" ELSE "Audio Release",
                        likes |-> (fanGain * 5) \div 2, timestamp |-> WallClock,
                        impact |-> [fans |-> fanGain, fame |-> song.quality * 100]]
    IN  [prev EXCEPT
            !.player.money = AmtAdd(@, Dollars(0 - c.cost)),
            !.player.fans = @ + (IF youTube THEN fanGain * 2 ELSE fanGain),
            !.player.fame = @ + (IF youTube THEN song.quality * 2000 ELSE song.quality * 1000),
            !.player.followers[c.platform] = @ + (fanGain \div 5),
            !.songs = <<updatedSong>> \o @,
            !.unreleasedSongs = SelectSeq(@, LAMBDA s : s.id # song.id),
            !.socialPosts = <<releasePost>> \o @,
            !.news = FirstN(<<"industry news">> \o @, 15)]

\* calculateSongImpact and generateIndustryNews have answered: the release is
\* committed and saved by a functional update; then checkFanInteraction(fanGain,
\* song.title) may start await generateFanInteraction(...)
distributeSongCommit(i) ==
    /\ calls[i].op = "distributeSong"
    /\ browser.mounted
    /\ \E fanGain \in ImpactGains(calls[i].song.quality, calls[i].prev.player.fans),
          roll \in BOOLEAN :
        LET c == calls[i]
            newState == released(gameState, c, fanGain, nextId)
        IN  \* saveToStorage(newState) is called inside the updater given to
            \* setGameState: when it throws, the updater returns no state, the error
            \* is thrown by the render that runs the updater, and React unmounts
            \* the tree
            /\ gameState' = IF browser.quotaExceeded THEN gameState ELSE newState
            /\ storage' = setItem(saveToStorage(newState))
            /\ browser' = [browser EXCEPT !.mounted = ~browser.quotaExceeded]
            /\ last' = [op |-> "distributeSong", before |-> gameState, cost |-> c.cost,
                        rejected |-> FALSE, song |-> c.song, fanGain |-> fanGain,
                        saveFailed |-> browser.quotaExceeded, committed |-> newState,
                        call |-> c]
            /\ calls' = IF fanGain > 1000 /\ roll
                        THEN [calls EXCEPT ![i] = [op |-> "checkFanInteraction"]]
                        ELSE RemoveAt(calls, i)
    /\ nextId' = nextId + 1
    /\ ghost' = [ghost EXCEPT !.savedAdv = IF browser.quotaExceeded THEN @ ELSE ghost.adv,
                              !.savedMonthSum = IF browser.quotaExceeded THEN @ ELSE ghost.monthSum]
    /\ UNCHANGED <<isSetup, pendingAwards, activeEvent, studio, activeFanInteraction>>

\* generateFanInteraction answers: if (interaction) setActiveFanInteraction({data: interaction})
checkFanInteraction(i) ==
    /\ calls[i].op = "checkFanInteraction"
    /\ browser.mounted
    /\ \E interaction \in FanInteractions \cup {Null} :
         activeFanInteraction' = IF interaction = Null THEN activeFanInteraction
                                 ELSE [data |-> interaction, resolved |-> FALSE]
    /\ calls' = RemoveAt(calls, i)
    /\ last' = [op |-> "checkFanInteraction"]
    /\ UNCHANGED <<browser, isSetup, gameState, storage, pendingAwards, activeEvent, nextId, ghost, studio>>

\* {...gameState.player, ...playerUpdate} of handleFanResponse
fanBonus(player, option) ==
    CASE option.bonusType = "fans"  -> [player EXCEPT !.fans = @ + option.bonusValue]
      [] option.bonusType = "money" -> [player EXCEPT !.money = AmtAdd(@, Dollars(option.bonusValue))]
      [] option.bonusType = "fame"  -> [player EXCEPT !.fame = @ + option.bonusValue]
      [] option.bonusType = "charisma" ->
            [player EXCEPT !.skills.charisma = @ + option.bonusValue]

\* handleFanResponse(option): a reply of the pending interaction is chosen
handleFanResponse(k) ==
    /\ ~isSetup
    /\ activeFanInteraction # Null
    /\ ~activeFanInteraction.resolved
    /\ browser.mounted
    /\ browser.quotaExceeded => ghost.nOps < MaxOps
    /\ k \in 1..Len(activeFanInteraction.data.options)
    /\ LET option == activeFanInteraction.data.options[k]
           nextState == [gameState EXCEPT !.player = fanBonus(@, option)]
       IN  /\ gameState' = nextState
           /\ storage' = setItem(saveToStorage(nextState))
           /\ last' = [op |-> "handleFanResponse", before |-> gameState, option |-> option]
    \* a throw of saveToStorage skips setActiveFanInteraction({..., resultNarrative})
    /\ activeFanInteraction' = IF browser.quotaExceeded THEN activeFanInteraction
                               ELSE [activeFanInteraction EXCEPT !.resolved = TRUE]
    /\ ghost' = [ghost EXCEPT !.savedAdv = IF browser.quotaExceeded THEN @ ELSE ghost.adv,
                              !.savedMonthSum = IF browser.quotaExceeded THEN @ ELSE ghost.monthSum,
                              !.nOps = IF browser.quotaExceeded THEN @ + 1 ELSE @,
                              !.fresh = FALSE]
    /\ UNCHANGED <<browser, isSetup, pendingAwards, activeEvent, calls, nextId, studio>>

\* produceMusicVideo(song) when the funds are short: notify and return
produceMusicVideoRejected(j) ==
    /\ Playing
    /\ ghost.nOps < MaxOps
    /\ j \in 1..Min(MaxSongPick, Len(gameState.songs))
    /\ AmtLess(gameState.player.money, 15000)
    /\ last' = [op |-> "produceMusicVideo", before |-> gameState, prev |-> gameState,
                rejected |-> TRUE]
    /\ ghost' = [ghost EXCEPT !.nOps = @ + 1, !.fresh = FALSE]
    /\ UNCHANGED <<browser, isSetup, gameState, storage, pendingAwards, activeEvent, calls, nextId,
                   studio, activeFanInteraction>>

\* a career an earlier session left in localStorage: skilled enough for the
\* clamp of saveToVault, with one mastered song in the vault, one released
\* song, and funds for one video or one YouTube release but not two
VaultCareer ==
    [ player |->
        [ fans |-> 6000, fame |-> 1500, money |-> Dollars(16000),
          followers |-> [Instagram |-> 900, TikTok |-> 1200, YouTube |-> 300, Spotify |-> 150, AppleMusic |-> 40],
          skills |-> [songwriting |-> 150, vocals |-> 160, production |-> 140, charisma |-> 30],
          labelId |-> "indie_self" ],
      currentDate |-> Date(2025, 5),
      currentWeek |-> 2,
      songs |-> << Song(RandomId(-21), "Single", 55, Date(2025, 3), 4000, getStreamRate(6000), FALSE) >>,
      unreleasedSongs |-> << Song(RandomId(-22), "Demo", 70, Date(2025, 4), 0, getStreamRate(0), FALSE) >>,
      awards |-> <<>>,
      charts |-> <<>>,
      socialPosts |-> <<>>,
      trendingTopics |-> FallbackTrending,
      activeOffers |-> <<>>,
      history |-> [i \in 1..6 |-> [month |-> i - 1, fans |-> 100 + (i - 1) * 1100]],
      \* a full log: fifteen headlines
      news |-> [i \in 1..15 |-> IF i = 1 THEN "Single is out now"
                                ELSE "Headline " \o ToString(16 - i)] ]

\* the setup screen, over no save or the vault career
InitStudio ==
    /\ isSetup = TRUE
    /\ gameState = DefaultGameState
    /\ storage \in {NoSave, stringify(VaultCareer)}
    /\ pendingAwards = Null
    /\ activeEvent = Null
    /\ calls = <<>>
    /\ nextId = 1
    /\ ghost = [ adv |-> FALSE, monthSum |-> 0, savedAdv |-> storage # NoSave,
                 savedMonthSum |-> 0, fresh |-> FALSE, k |-> 0, settled |-> 0,
                 nAdv |-> 0, maxAdv |-> 0, nOps |-> 0, nSessions |-> 0, maxSessions |-> MaxSessions, nRecord |-> 0, nReleases |-> 0,
                 nEvents |-> 0, maxEvents |-> MaxEvents ]
    /\ last = [op |-> "init"]
    /\ studio = InitialStudio
    /\ activeFanInteraction = Null
    /\ browser = [quotaExceeded |-> FALSE, mounted |-> TRUE]

\* the studio: booking, drafting, paying, tapping, mastering
NextStudio ==
    \/ handleStartGame
    \/ handleContinue
    \/ startDrafting
    \/ \E form \in DraftForms : setDraftForm(form)
    \/ startRecording
    \/ \E i \in 1..Len(calls) : startRecordingCommit(i)
    \/ handleTap
    \/ tapTimeout
    \/ saveToVault

SpecStudio == InitStudio /\ [][NextStudio]_vars

-----------------------------------------------------------------------------
(* The studio of the simplified variant (part_000): a song idea is reviewed, *)
(* then saved as a draft or recorded at once; a draft is recorded from the  *)
(* vault; no session is paid for                                            *)

\* Write Lyrics: startReview, enabled once the form has a title
startReview ==
    /\ Playing
    /\ studio.recordingPhase = "drafting"
    /\ studio.draftForm.title # ""
    /\ studio' = [studio EXCEPT !.recordingPhase = "review"]
    /\ last' = [op |-> "startReview"]
    /\ UNCHANGED <<browser, isSetup, gameState, storage, pendingAwards, activeEvent, calls, nextId, ghost,
                   activeFanInteraction>>

\* Save as Draft: an unmastered song of quality 0 is put in front of the vault
saveToVaultDraft ==
    /\ Playing
    /\ studio.recordingPhase = "review"
    /\ LET newSong == Song(RandomId(nextId), studio.draftForm.title, 0,
                           gameState.currentDate, 0, getStreamRate(0), FALSE)
                      @@ [isMastered |-> FALSE]
       IN  gameState' = [gameState EXCEPT !.unreleasedSongs = <<newSong>> \o @]
    /\ studio' = [studio EXCEPT !.recordingPhase = "idle"]
    /\ nextId' = nextId + 1
    /\ ghost' = [ghost EXCEPT !.fresh = FALSE]
    /\ last' = [op |-> "saveToVaultDraft", before |-> gameState]
    /\ UNCHANGED <<browser, isSetup, storage, pendingAwards, activeEvent, calls, activeFanInteraction>>

\* Record Draft, on a vault entry that is not mastered: startRecordingFromDraft(song)
startRecordingFromDraft(i) ==
    /\ Playing
    /\ ghost.nRecord < MaxRecord
    /\ i \in 1..Len(gameState.unreleasedSongs)
    /\ LET song == gameState.unreleasedSongs[i]
       IN  /\ ~("isMastered" \in DOMAIN song /\ song.isMastered)
           /\ studio' = [studio EXCEPT
                            !.draftForm = [title |-> song.title, feature |-> "", useGhostwriter |-> FALSE],
                            !.miniGameScore = <<>>,
                            !.recordingPhase = "recording"]
    /\ last' = [op |-> "startRecordingFromDraft"]
    /\ ghost' = [ghost EXCEPT !.nRecord = @ + 1, !.fresh = FALSE]
    /\ UNCHANGED <<browser, isSetup, gameState, storage, pendingAwards, activeEvent, calls, nextId,
                   activeFanInteraction>>

\* Record Now: the startRecording of the simplified variant
startRecordingNow ==
    /\ Playing
    /\ ghost.nRecord < MaxRecord
    /\ studio.recordingPhase = "review"
    /\ studio' = [studio EXCEPT !.miniGameScore = <<>>, !.recordingPhase = "recording"]
    /\ last' = [op |-> "startRecordingNow"]
    /\ ghost' = [ghost EXCEPT !.nRecord = @ + 1, !.fresh = FALSE]
    /\ UNCHANGED <<browser, isSetup, gameState, storage, pendingAwards, activeEvent, calls, nextId,
                   activeFanInteraction>>

\* Finalize Master: the saveToVault of the simplified variant; the mastered
\* song goes in front of prev.unreleasedSongs.filter(s => s.title !== draftForm.title)
saveToVaultMaster ==
    /\ Playing
    /\ studio.recordingPhase = "results"
    /\ \E r \in {0, 499} :
        LET quality == rawQuality(gameState.player.skills, studio.draftForm, studio.miniGameScore, r)
            newSong == [Song(RandomId(nextId), studio.draftForm.title, 0,
                             gameState.currentDate, 0, getStreamRate(0), FALSE)
                            EXCEPT !.quality = clampQuality(quality)]
                       @@ [isMastered |-> TRUE]
        IN  /\ gameState' = [gameState EXCEPT
                                !.unreleasedSongs =
                                    <<newSong>> \o SelectSeq(@, LAMBDA s : s.title # studio.draftForm.title)]
            /\ last' = [op |-> "saveToVaultMaster", before |-> gameState, song |-> newSong]
    /\ studio' = [studio EXCEPT !.recordingPhase = "idle"]
    /\ nextId' = nextId + 1
    /\ ghost' = [ghost EXCEPT !.fresh = FALSE]
    /\ UNCHANGED <<browser, isSetup, storage, pendingAwards, activeEvent, calls, activeFanInteraction>>

\* a new career whose session may book a second studio session
InitDraft ==
    /\ isSetup = TRUE
    /\ gameState = DefaultGameState
    /\ storage = NoSave
    /\ pendingAwards = Null
    /\ activeEvent = Null
    /\ calls = <<>>
    /\ nextId = 1
    /\ ghost = [ adv |-> FALSE, monthSum |-> 0, savedAdv |-> FALSE,
                 savedMonthSum |-> 0, fresh |-> FALSE, k |-> 0, settled |-> 0,
                 nAdv |-> 0, maxAdv |-> 0, nOps |-> 0, nSessions |-> 0, maxSessions |-> MaxSessions + 1,
                 nRecord |-> 0, nReleases |-> 0, nEvents |-> 0, maxEvents |-> MaxEvents ]
    /\ last = [op |-> "init"]
    /\ studio = InitialStudio
    /\ activeFanInteraction = Null
    /\ browser = [quotaExceeded |-> FALSE, mounted |-> TRUE]

NextDraft ==
    \/ handleStartGame
    \/ startDrafting
    \/ \E title \in {"Anthem", "Ballad"} :
          setDraftForm([title |-> title, feature |-> "", useGhostwriter |-> FALSE])
    \/ startReview
    \/ saveToVaultDraft
    \/ \E i \in 1..Len(gameState.unreleasedSongs) : startRecordingFromDraft(i)
    \/ startRecordingNow
    \* every tap is a perfect one here: the scores play no part in the vault's contents
    \/ handleTap /\ \A n \in DOMAIN studio'.miniGameScore : studio'.miniGameScore[n] = 100
    \/ tapTimeout
    \/ saveToVaultMaster

SpecDraft == InitDraft /\ [][NextDraft]_vars

-----------------------------------------------------------------------------
(* The feed: a post is published on the active platform                     *)

\* a click on Post, up to the awaits of handlePostSocial: it returns at once
\* when the draft is not filled in or a post is being published (isPosting);
\* trendMatches is the number of trending topics the content holds
handlePostSocial(platform, filled, trendMatches) ==
    /\ Playing
    /\ ghost.nOps < MaxOps
    /\ Len(calls) < MaxInFlight
    /\ \A i \in 1..Len(calls) : calls[i].op # "handlePostSocial"
    /\ IF filled
       THEN /\ calls' = Append(calls, [op |-> "handlePostSocial", prev |-> gameState,
                                       platform |-> platform, trendMatches |-> trendMatches])
            /\ last' = [op |-> "handlePostSocial.await"]
       ELSE /\ last' = [op |-> "handlePostSocial", before |-> gameState, rejected |-> TRUE]
            /\ UNCHANGED calls
    /\ ghost' = [ghost EXCEPT !.nOps = @ + 1, !.fresh = FALSE]
    /\ UNCHANGED <<browser, isSetup, gameState, storage, pendingAwards, activeEvent, nextId,
                   studio, activeFanInteraction>>

\* generateSocialEngagement has answered: the post and the gains are computed
\* from the gameState of the render that was clicked and committed over the
\* state on screen; then checkFanInteraction(fanGain, ...) may start its await
handlePostSocialCommit(i) ==
    /\ calls[i].op = "handlePostSocial"
    /\ browser.mounted
    /\ LET c == calls[i]
           prev == c.prev
           \* trendMultiplier, in tenths: trendMatches > 0 ? 1.5 + trendMatches * 0.2 : 1
           trendMultiplier == IF c.trendMatches > 0 THEN 15 + 2 * c.trendMatches ELSE 10
           \* the platform's factor of baseAudience, in tenths
           factor == CASE c.platform = "Instagram" -> 5
                       [] c.platform = "TikTok" -> 20
                       [] c.platform = "YouTube" -> 15
                       [] OTHER -> 2
           \* Math.floor(baseAudience * factor * trendMultiplier),
           \* baseAudience = fans * 0.01 + 10
           fanGain == ((prev.player.fans + 1000) * factor * trendMultiplier) \div 10000
           fameGain == CASE c.platform = "Instagram" -> fanGain * 2
                         [] c.platform = "YouTube" -> fanGain * 4
                         [] OTHER -> fanGain
           newPost == [id |-> RandomId(nextId), platform |-> c.platform, type |-> "Post",
                       likes |-> fanGain * 2, timestamp |-> WallClock,
                       impact |-> [fans |-> fanGain, fame |-> fameGain]]
           nextState == [prev EXCEPT
                            !.socialPosts = <<newPost>> \o @,
                            !.player.fans = @ + fanGain,
                            !.player.fame = @ + fameGain,
                            !.player.followers[c.platform] = @ + fanGain]
       IN  /\ gameState' = nextState
           /\ storage' = setItem(saveToStorage(nextState))
           /\ last' = [op |-> "handlePostSocial", before |-> gameState, prev |-> prev,
                       rejected |-> FALSE, saveFailed |-> browser.quotaExceeded,
                       committed |-> nextState]
           \* a throw of saveToStorage skips checkFanInteraction
           /\ \E roll \in BOOLEAN :
                calls' = IF fanGain > 1000 /\ roll /\ ~browser.quotaExceeded
                         THEN [calls EXCEPT ![i] = [op |-> "checkFanInteraction"]]
                         ELSE RemoveAt(calls, i)
    /\ nextId' = nextId + 1
    /\ ghost' = [ghost EXCEPT !.savedAdv = IF browser.quotaExceeded THEN @ ELSE ghost.adv,
                              !.savedMonthSum = IF browser.quotaExceeded THEN @ ELSE ghost.monthSum]
    /\ UNCHANGED <<browser, isSetup, pendingAwards, activeEvent, studio, activeFanInteraction>>

\* the vault, the video button, the feed and the fan modal
NextRelease ==
    \/ handleStartGame
    \/ handleContinue
    \/ \E j \in 1..MaxSongPick, platform \in ReleasePlatforms : distributeSong(j, platform)
    \/ \E i \in 1..Len(calls) : distributeSongCommit(i)
    \/ \E i \in 1..Len(calls) : checkFanInteraction(i)
    \/ \E k \in 1..4 : handleFanResponse(k)
    \/ \E j \in 1..MaxSongPick : produceMusicVideo(j)
    \/ \E j \in 1..MaxSongPick : produceMusicVideoRejected(j)
    \/ \E i \in 1..Len(calls) : produceMusicVideoCommit(i)
    \/ \E platform \in {"Instagram", "TikTok", "YouTube", "Spotify"}, filled \in BOOLEAN,
          trendMatches \in 0..1 : handlePostSocial(platform, filled, trendMatches)
    \/ \E i \in 1..Len(calls) : handlePostSocialCommit(i)

SpecRelease == InitStudio /\ [][NextRelease]_vars

\* the handlers that charge the player
NextFunds ==
    \/ handleStartGame
    \/ handleContinue
    \/ startDrafting
    \/ \E form \in DraftForms : setDraftForm(form)
    \/ startRecording
    \/ \E i \in 1..Len(calls) : startRecordingCommit(i)
    \/ \E j \in 1..MaxSongPick, platform \in ReleasePlatforms : distributeSong(j, platform)
    \/ \E i \in 1..Len(calls) : distributeSongCommit(i)
    \/ \E i \in 1..Len(calls) : checkFanInteraction(i)
    \/ \E j \in 1..MaxSongPick : produceMusicVideo(j)
    \/ \E j \in 1..MaxSongPick : produceMusicVideoRejected(j)
    \/ \E i \in 1..Len(calls) : produceMusicVideoCommit(i)

SpecFunds == InitStudio /\ [][NextFunds]_vars

-----------------------------------------------------------------------------
(* A store that refuses the save: localStorage.setItem throws when the quota *)
(* is exceeded (or the store is disabled), for the whole session or not at   *)
(* all.                                                                      *)

InitQuota ==
    /\ isSetup = TRUE
    /\ gameState = DefaultGameState
    /\ storage = stringify(VaultCareer)
    /\ pendingAwards = Null
    /\ activeEvent = Null
    /\ calls = <<>>
    /\ nextId = 1
    /\ ghost = [ adv |-> FALSE, monthSum |-> 0, savedAdv |-> TRUE,
                 savedMonthSum |-> 0, fresh |-> FALSE, k |-> 0, settled |-> 0,
                 nAdv |-> 0, maxAdv |-> 0, nOps |-> 0, nSessions |-> 0, maxSessions |-> MaxSessions, nRecord |-> 0, nReleases |-> 0,
                 nEvents |-> 0, maxEvents |-> MaxEvents ]
    /\ last = [op |-> "init"]
    /\ studio = InitialStudio
    /\ activeFanInteraction = Null
    /\ browser \in [quotaExceeded : BOOLEAN, mounted : {TRUE}]

\* the weeks of a month, the vault and the video button
NextQuota ==
    \/ handleContinue
    \/ advanceTimeWeek
    \/ \E j \in 1..MaxSongPick, platform \in ReleasePlatforms : distributeSong(j, platform)
    \/ \E i \in 1..Len(calls) : distributeSongCommit(i)
    \/ \E i \in 1..Len(calls) : checkFanInteraction(i)
    \/ \E j \in 1..MaxSongPick : produceMusicVideo(j)
    \/ \E j \in 1..MaxSongPick : produceMusicVideoRejected(j)
    \/ \E i \in 1..Len(calls) : produceMusicVideoCommit(i)

SpecQuota == InitQuota /\ [][NextQuota]_vars

-----------------------------------------------------------------------------
(* Label signing: the Sign Deal buttons of the industry screen *)

\* LABELS.filter(l => l.id !== 'indie_self'), as indexes into LABELS
OfferedLabels == {i \in 1..Len(LABELS) : LABELS[i].id # "indie_self"}

\* const eligible = gameState.player.fame >= label.fameRequirement
eligible(state, label) == state.player.fame >= label.fameRequirement

\* disabled={!eligible || gameState.player.labelId === label.id}
signDisabled(state, label) == ~eligible(state, label) \/ state.player.labelId = label.id

\* variant: the bonus is credited, the label is not switched
signedKeepingLabel(s, label) ==
    [s EXCEPT !.player.money = AmtAdd(@, Dollars(label.signingBonus))]

\* s => ({...s, player: {...s.player, money: s.player.money + label.signingBonus, labelId: label.id}})
signed(s, label) ==
    [s EXCEPT !.player.money = AmtAdd(@, Dollars(label.signingBonus)),
              !.player.labelId = label.id]

\* a click on the button of LABELS[i]; a disabled button runs no handler
signLabel(i) ==
    /\ Playing
    /\ ghost.nOps < MaxOps
    /\ LET label == LABELS[i]
       IN  /\ gameState' = IF signDisabled(gameState, label) THEN gameState
                           ELSE signed(gameState, label)
           /\ last' = [op |-> "signLabel", before |-> gameState, label |-> label]
    /\ ghost' = [ghost EXCEPT !.nOps = @ + 1, !.fresh = FALSE]
    /\ UNCHANGED <<browser, isSetup, storage, pendingAwards, activeEvent, calls, nextId,
                   studio, activeFanInteraction>>

\* the calendar and the industry screen
NextLabel ==
    \/ NextTime
    \/ \E i \in OfferedLabels : signLabel(i)

SpecLabel == Init /\ [][NextLabel]_vars

-----------------------------------------------------------------------------
(* getStreamRate on its own: two fan counts are drawn, the rate of each is  *)
(* computed                                                                 *)

\* the fan counts drawn go up to MaxFanStep quarter-millions
MaxFanStep == 6
FanSamples ==
    {0, 1, Million - 1, Million, Million + 1} \cup {k * 250000 : k \in 0..MaxFanStep}

InitRate ==
    /\ isSetup = TRUE
    /\ gameState = DefaultGameState
    /\ storage = NoSave
    /\ pendingAwards = Null
    /\ activeEvent = Null
    /\ calls = <<>>
    /\ nextId = 1
    /\ ghost = [nAdv |-> 0]
    /\ \E a \in FanSamples, b \in FanSamples : last = [op |-> "fans", a |-> a, b |-> b]
    /\ studio = InitialStudio
    /\ activeFanInteraction = Null
    /\ browser = [quotaExceeded |-> FALSE, mounted |-> TRUE]

callGetStreamRate ==
    /\ last.op = "fans"
    /\ last' = [op |-> "getStreamRate", a |-> last.a, b |-> last.b,
                rateA |-> getStreamRate(last.a), rateB |-> getStreamRate(last.b)]
    /\ UNCHANGED <<browser, studio, activeFanInteraction, isSetup, gameState, storage, pendingAwards, activeEvent, calls, nextId, ghost>>

SpecRate == InitRate /\ [][callGetStreamRate]_vars

-----------------------------------------------------------------------------
(* runAwardsSeason on its own: a career state is drawn around the three     *)
(* thresholds, the awards of its season are computed                        *)

MaxAwardSongs == 4
AwardFans == {Million - 1, Million, Million + 1, 3 * (Million \div 2)}
AwardFame == {5 * Million - 1, 5 * Million, 5 * Million + 1}
AwardQualities == {0, 85, 86}

\* the released songs: 2 to MaxAwardSongs qualities in any order
AwardSongLists ==
    UNION { [1..n -> AwardQualities] : n \in 2..MaxAwardSongs }

AwardState(fans, fame, qs) ==
    [NewCareer EXCEPT
        !.player.fans = fans,
        !.player.fame = fame,
        !.currentDate = Date(2026, 0),
        !.songs = [i \in 1..Len(qs) |->
                     Song(RandomId(-i), "Track", qs[i], Date(2025, 0), 0, getStreamRate(fans), FALSE)]]

InitAwards ==
    /\ isSetup = FALSE
    /\ \E fans \in AwardFans, fame \in AwardFame, qs \in AwardSongLists :
           gameState = AwardState(fans, fame, qs)
    /\ storage = NoSave
    /\ pendingAwards = Null
    /\ activeEvent = Null
    /\ calls = <<>>
    /\ nextId = 1
    /\ ghost = [nAdv |-> 0]
    /\ last = [op |-> "state"]
    /\ studio = InitialStudio
    /\ activeFanInteraction = Null
    /\ browser = [quotaExceeded |-> FALSE, mounted |-> TRUE]

callRunAwardsSeason ==
    /\ last.op = "state"
    /\ last' = [op |-> "runAwardsSeason", won |-> runAwardsSeason(gameState, nextId)]
    /\ nextId' = nextId + 2
    /\ UNCHANGED <<browser, isSetup, gameState, storage, pendingAwards, activeEvent, calls, ghost,
                   studio, activeFanInteraction>>

SpecAwards == InitAwards /\ [][callRunAwardsSeason]_vars

-----------------------------------------------------------------------------
(* Properties.  A property of an advanceTime call is stated on the state it *)
(* commits, against prev, the state the call read when it started.          *)

AdvanceCommitted == last.op = "advanceTime"
RolloverCommitted == last.op = "advanceTime" /\ last.rollover
WeekCommitted == last.op = "advanceTime" /\ ~last.rollover

C2_WeekOrMonth ==
    AdvanceCommitted =>
        LET prev == last.prev
            inPlace == /\ gameState.currentWeek = prev.currentWeek + 1
                       /\ gameState.currentDate = prev.currentDate
            rolled == /\ gameState.currentWeek = 1
                      /\ gameState.currentDate.month \in 0..11
                      /\ MonthIndex(gameState.currentDate) = MonthIndex(prev.currentDate) + 1
        IN  /\ prev.currentWeek < 4 => inPlace /\ ~rolled
            /\ prev.currentWeek = 4 => rolled /\ ~inPlace
            /\ prev.currentWeek \in 0..4

\* a rollover from December has committed: the date is January of the next year
C2_Witness ==
    /\ RolloverCommitted
    /\ last.prev.currentDate = Date(2026, 11)
    /\ gameState.currentDate = Date(2027, 0)
    /\ gameState.currentWeek = 1

C4_MonthlyActivityIsMonthTotal ==
    RolloverCommitted => last.monthlyActivity = last.monthSum

\* C5: advanceTime increases player.fans by exactly floor(fans * 0.01) on a
\* non-rollover step and by exactly floor(fans * 0.05) on a rollover step, fans
\* being the value before the step; a new career (fans 100, money 5000, week 0)
\* has week 1, fans 101 and unchanged money after one advance.
C5_FanGrowth ==
    AdvanceCommitted =>
        LET fans == last.prev.player.fans
        IN  /\ ~last.rollover => gameState.player.fans = fans + (fans - (fans % 100)) \div 100
            /\ last.rollover => gameState.player.fans = fans + (fans - (fans % 20)) \div 20
            /\ last.prev = NewCareer =>
                /\ gameState.currentWeek = 1
                /\ gameState.player.fans = 101
                /\ gameState.player.money = Dollars(5000)

\* a weekly step has committed on fans that are no multiple of 100
C5_Witness ==
    /\ WeekCommitted
    /\ \/ last.prev.player.fans = 2000 + 20 /\ gameState.player.fans = 2040
       \/ last.prev.player.fans = 1499547 /\ gameState.player.fans = 1499547 + 14995

\* the streams of the song with that id, 0 when there is none
StreamsOf(state, id) == OldStreams(state.songs, id)

\* C6: every advanceTime call (rollover or not) increases the streams of every
\* released song by at least 1, and by exactly 1 when the song's quality is 0;
\* no operation ever decreases a released song's streams.
C6_StreamsGrow ==
    /\ AdvanceCommitted =>
        \A i \in 1..Len(last.prev.songs) :
            LET song == last.prev.songs[i]
                gain == StreamsOf(gameState, song.id) - song.streams
            IN  gain >= 1 /\ (song.quality = 0 => gain = 1)
    /\ "before" \in DOMAIN last =>
        \A i \in 1..Len(last.before.songs) :
            StreamsOf(gameState, last.before.songs[i].id) >= last.before.songs[i].streams

\* C7: after every advanceTime commit, each released song's revenue equals its
\* total cumulative streams multiplied by getStreamRate(fans at the start of
\* that step).
C7_RevenueRecomputed ==
    AdvanceCommitted =>
        /\ Len(gameState.songs) = Len(last.prev.songs)
        /\ \A i \in 1..Len(gameState.songs) :
            gameState.songs[i].revenue =
                TimesRate(gameState.songs[i].streams, getStreamRate(last.prev.player.fans), 100)

\* a step has committed above a million fans, where the rate moves with the fans
C7_Witness ==
    /\ AdvanceCommitted
    /\ last.prev.player.fans > Million
    /\ Len(gameState.songs) = 3
    /\ getStreamRate(gameState.player.fans) # getStreamRate(last.prev.player.fans)

\* C8: on a rollover step player.money increases by exactly monthlyActivity *
\* getStreamRate(fans before the step) * (revenueSplit of the player's current
\* label / 100), plus the award money of that step; the share is 100% for
\* 'indie_self', and for every label of the catalog it is revenueSplit / 100.
C8_Royalties ==
    /\ RolloverCommitted =>
        LET prev == last.prev
            label == FindLabel(prev.player.labelId)
            royalties == TimesRate(last.monthlyActivity, getStreamRate(prev.player.fans),
                                   label.revenueSplit)
            awardMoney == Dollars(last.won * 100000)
        IN  /\ label # Null
            /\ gameState.player.money = AmtAdd(AmtAdd(prev.player.money, royalties), awardMoney)
    /\ ShareOf("indie_self") = 100
    /\ \A i \in 1..Len(LABELS) : ShareOf(LABELS[i].id) = LABELS[i].revenueSplit

\* a rollover has committed for a signed artist: royalties at the label's split
C8_Witness ==
    /\ RolloverCommitted
    /\ last.prev.player.labelId = "label_indie"
    /\ last.monthlyActivity > 0
    /\ gameState.player.money # last.prev.player.money

\* C9: getStreamRate(fans) is non-decreasing in fans for all fans >= 0, equals
\* exactly 0.5 for every fans < 1,000,000, and equals
\* 0.5 + (fans - 1,000,000) * 1e-7 for fans >= 1,000,000.
C9_StreamRate ==
    last.op = "getStreamRate" =>
        /\ last.a <= last.b => last.rateA <= last.rateB
        /\ last.a < 1000000 => last.rateA = 5000000
        /\ last.a >= 1000000 => last.rateA = 5000000 + (last.a - 1000000)

\* the rate has been computed on both sides of a million fans
C9_Witness ==
    /\ last.op = "getStreamRate"
    /\ last.a = 1000000 - 1
    /\ last.b = 1000000 + 1
    /\ last.rateB = last.rateA + 1

\* the history stamps of the offers of a list
Stamps(offers) == {offers[i].added : i \in 1..Len(offers)}

C11_AcceptDeal ==
    last.op = "handleAcceptDeal" =>
        /\ gameState.player.money = AmtAdd(last.before.player.money, Dollars(last.deal.payout))
        /\ gameState.player.skills.charisma =
               Max(0, last.before.player.skills.charisma - last.deal.charismaPenalty)
        /\ Len(gameState.activeOffers) = Len(last.before.activeOffers) - 1
        /\ \E j \in 1..Len(last.before.activeOffers) :
               /\ last.before.activeOffers[j] = last.deal
               /\ gameState.activeOffers = RemoveAt(last.before.activeOffers, j)

\* ---------------------------------------------------------------------------
\* C12: signing with a label leaves the career state unchanged when the
\* player's fame is below the label's fameRequirement or the label is already
\* the current one; otherwise money rises by exactly the signingBonus, labelId
\* becomes the label's id and no other field of the career state changes.
C12_SignLabel ==
    last.op = "signLabel" =>
        LET b == last.before
            l == last.label
        IN  IF b.player.fame < l.fameRequirement \/ b.player.labelId = l.id
            THEN gameState = b
            ELSE /\ gameState.player.money = AmtAdd(b.player.money, Dollars(l.signingBonus))
                 /\ gameState.player.labelId = l.id
                 /\ [gameState EXCEPT !.player.money = b.player.money,
                                      !.player.labelId = b.player.labelId] = b

\* a famous artist under label_major signs with label_indie and is paid its bonus
C12_Witness ==
    /\ last.op = "signLabel"
    /\ last.before.player.fame >= last.label.fameRequirement
    /\ last.before.player.labelId # last.label.id
    /\ last.label.signingBonus > 0
    /\ gameState.player.labelId = last.label.id
    /\ gameState.player.money # last.before.player.money

\* ---------------------------------------------------------------------------
\* C13: runAwardsSeason returns an 'Album of the Year' award exactly when
\* fans > 1,000,000, at least 3 songs are released and the best released
\* quality is above 85, and a 'Best Artist' award exactly when fame >
\* 5,000,000; each condition is evaluated on its own and nothing else is
\* returned.
Categories(won) == {won[i].category : i \in 1..Len(won)}

AlbumDue(s) ==
    /\ s.currentDate.month = 11
    /\ s.player.fans > 1000000
    /\ Len(s.songs) >= 3
    /\ \E i \in 1..Len(s.songs) : s.songs[i].quality > 85

ArtistDue(s) == s.currentDate.month = 11 /\ s.player.fame > 5000000

C14_AwardPrizes ==
    /\ RolloverCommitted =>
        LET prev == last.prev
            k == (IF AlbumDue(prev) THEN 1 ELSE 0) + (IF ArtistDue(prev) THEN 1 ELSE 0)
            royalties == TimesRate(last.monthlyActivity, getStreamRate(prev.player.fans),
                                   ShareOf(prev.player.labelId))
        IN  /\ Len(gameState.awards) = Len(prev.awards) + k
            /\ SubSeq(gameState.awards, 1, Len(prev.awards)) = prev.awards
            /\ gameState.player.fame = prev.player.fame + 500000 * k
            /\ gameState.player.money =
                   AmtAdd(AmtAdd(prev.player.money, Dollars(100000 * k)), royalties)
            /\ (AlbumDue(prev) /\ ~ArtistDue(prev)) =>
                   /\ gameState.awards[Len(gameState.awards)].category = "Album of the Year"
                   /\ gameState.currentDate.month = 0
    /\ LET s == [StarCareer EXCEPT !.player.fans = 1500000, !.currentWeek = 4]
           next == RolloverState(s, s.songs, s.trendingTopics, s.activeOffers,
                                 runAwardsSeason(s, 1))
       IN  /\ BestQuality(s.songs) = 90 /\ Len(s.songs) = 3 /\ s.player.fame <= 5000000
           /\ Len(next.awards) = Len(s.awards) + 1
           /\ next.awards[Len(next.awards)].category = "Album of the Year"
           /\ next.currentDate = Date(s.currentDate.year + 1, 0)
           /\ next.player.fame = s.player.fame + 500000

\* the December rollover of the saved star career has committed with its award
C14_Witness ==
    /\ RolloverCommitted
    /\ last.prev.currentDate.month = 11
    /\ last.prev.player.fans > 1000000
    /\ BestQuality(last.prev.songs) = 90
    /\ last.prev.player.fame <= 5000000
    /\ Len(gameState.awards) = Len(last.prev.awards) + 1
    /\ gameState.player.fame = last.prev.player.fame + 500000
    /\ gameState.currentDate.month = 0

\* ---------------------------------------------------------------------------
\* C15: within a career the awards list changes only in an advanceTime
\* rollover whose new date is in January, and only by appending: no other
\* operation adds an award, and no award already in the list is ever modified
\* or removed.
C15_AwardsAppendOnly ==
    [][ (gameState'.awards # gameState.awards /\ ~handleStartGame /\ ~handleContinue) =>
            /\ last'.op = "advanceTime"
            /\ last'.rollover
            /\ gameState'.currentDate.month = 0
            /\ Len(gameState'.awards) > Len(gameState.awards)
            /\ SubSeq(gameState'.awards, 1, Len(gameState.awards)) = gameState.awards ]_vars

\* ---------------------------------------------------------------------------
\* C16: every song of unreleasedSongs and of songs has an integer quality in
\* 0..100 in every reachable state: saveToVault stores a quality within
\* [0, 100] whatever the skills, the tap scores, the ghostwriter and the
\* featured-artist bonus.
QualityInRange(song) == song.quality # NaN /\ song.quality \in 0..100

C16_QualityRange ==
    /\ \A i \in 1..Len(gameState.unreleasedSongs) : QualityInRange(gameState.unreleasedSongs[i])
    /\ \A i \in 1..Len(gameState.songs) : QualityInRange(gameState.songs[i])

\* ---------------------------------------------------------------------------
\* C17: whatever the sequence of saveToVault, distributeSong,
\* produceMusicVideo and advanceTime calls, overlapping ones included, every
\* song id appears exactly once across unreleasedSongs and songs: a song is
\* never duplicated and never in both collections.
SongIds(state) ==
    [i \in 1..(Len(state.unreleasedSongs) + Len(state.songs)) |->
        IF i <= Len(state.unreleasedSongs) THEN state.unreleasedSongs[i].id
        ELSE state.songs[i - Len(state.unreleasedSongs)].id]

C17_SongOnce ==
    LET ids == SongIds(gameState)
    IN  \A i, j \in 1..Len(ids) : ids[i] = ids[j] => i = j

C19_MoneyNonNegative == ~AmtLess(gameState.player.money, 0)

\* ---------------------------------------------------------------------------
\* C20: fans, fame and charisma are all >= 0 in every reachable state, after
\* any sequence of advanceTime calls, event choices, fan-interaction replies
\* (whatever integer their bonusValue is), social posts, distributions and
\* accepted deals.
C20_NonNegativeStats ==
    /\ gameState.player.fans >= 0
    /\ gameState.player.fame >= 0
    /\ gameState.player.skills.charisma >= 0

\* ---------------------------------------------------------------------------
\* C21: for every reachable career state s, loadFromStorage after
\* saveToStorage(s) returns a state equal to s in every field, the dates
\* (currentDate, each releaseDate, each timestamp) included.
C21_RoundTrip == loadFromStorage(saveToStorage(gameState)) = gameState

\* C22: a stored value that is absent or cannot be read as a career makes
\* loadFromStorage return null, and whatever handleContinue installs as the
\* game state has every field of a career
C22_OnlyCompleteInstalled ==
    /\ loadFromStorage(storage) = Null => storage \in {NoSave, CorruptText} \cup JsonPrimitives
    /\ Complete(gameState)

\* C23: every advanceTime call that has started commits in the end, whether
\* its Oracle calls answer or fail; after a failed generateTrendingTopics the
\* committed trendingTopics is the fixed list of five tags, and after a failed
\* generateSponsoredOffer the offer added in front is the fixed GlowWater offer
C23_AdvanceCommits ==
    /\ [](RolloverCommitted /\ last.failed.trending =>
            /\ gameState.trendingTopics = FallbackTrending
            /\ Len(gameState.trendingTopics) = 5)
    /\ [](RolloverCommitted /\ last.failed.offer =>
            /\ gameState.activeOffers[1] = last.offer
            /\ last.offer.id = FallbackOfferId
            /\ last.offer.brand = "GlowWater"
            /\ last.offer.payout = 5000
            /\ last.offer.charismaPenalty = 3)
    /\ (calls # <<>>) ~> (calls = <<>>)

C23_Witness ==
    /\ RolloverCommitted
    /\ last.failed.trending
    /\ last.failed.offer
    /\ calls = <<>>

\* C24: at most one call that changes the career is in flight: while an
\* advanceTime or an action handler is suspended at an await, no other
\* advanceTime or handler has started
C24_SingleInFlight == Len(calls) <= 1

\* C25: no committed change is lost while a call is suspended: an advanceTime
\* commits over the state it read when it started, and every completed
\* advanceTime moves the calendar on by one week, so that N completed calls
\* advance it by N weeks
C25_NoLostUpdate ==
    AdvanceCommitted =>
        LET week(state) == 4 * MonthIndex(state.currentDate) + state.currentWeek
        IN  /\ last.before = last.prev
            /\ week(gameState) = week(last.before) + 1

\* C26: once a handler that commits a change of the career has completed
\* (advanceTime, saveToVault, distributeSong, produceMusicVideo,
\* handleAcceptDeal, startRecording, label signing, the resolution of an event
\* or of a fan interaction), the snapshot in localStorage is the snapshot of the
\* career in memory
C26_Persisted ==
    (\/ last.op \in {"advanceTime", "handleAcceptDeal", "handleEventChoice",
                     "handleFanResponse", "signLabel"}
     \/ last.op \in {"startRecording", "distributeSong"} /\ ~last.rejected
     \/ last.op = "saveToVault" /\ last.saved
     \/ last.op = "produceMusicVideo" /\ "rejected" \notin DOMAIN last)
    => storage = saveToStorage(gameState)

\* C27: when saveToStorage throws, the change of the career that advanceTime,
\* distributeSong, produceMusicVideo or saveToVault was committing still takes
\* effect in full, and the game goes on
C27_CommitSurvives ==
    ("saveFailed" \in DOMAIN last /\ last.saveFailed) =>
        /\ gameState = last.committed
        /\ browser.mounted

C29_EventNotOverAwards ==
    (AdvanceCommitted /\ last.event # 0) =>
        /\ last.rollover
        /\ pendingAwards = Null

\* C30: of each random event that surfaces at most one option is ever applied:
\* while an event is on screen no other event takes its place, an option is
\* applied only while the event is unresolved, and the event leaves the screen
\* only through the Continue button of its result
C30_OneChoicePerEvent ==
    [][activeEvent # Null =>
        /\ ghost'.nEvents = ghost.nEvents
        /\ last'.op = "handleEventChoice" =>
              ~activeEvent.resolved /\ activeEvent' = [activeEvent EXCEPT !.resolved = TRUE]
        /\ activeEvent' = Null => activeEvent.resolved /\ last'.op = "dismissEvent"]_vars

\* C31: whenever saveToVault computes the quality of a song, exactly
\* SESSION_NOTES_REQUIRED tap scores have been collected for the session
C31_FiveTaps ==
    (last.op = "saveToVault" /\ last.saved) => Len(last.scores) = SESSION_NOTES_REQUIRED

\* C32: mastering a song removes from the unreleased collection only unmastered
\* entries of the same title: every mastered unreleased song that was in the
\* collection before the call is in it afterwards
C32_MasteredKept ==
    last.op = "saveToVaultMaster" =>
        /\ \A i \in 1..Len(last.before.unreleasedSongs) :
              LET s == last.before.unreleasedSongs[i]
              IN  \/ \E j \in 1..Len(gameState.unreleasedSongs) : gameState.unreleasedSongs[j] = s
                  \/ ~s.isMastered /\ s.title = last.song.title

\* C33 as stated: a YouTube release adds exactly 2x the fans and exactly 4x the
\* fame that the same release adds on a platform other than YouTube
C33_YouTubeFourfoldFame ==
    (last.op = "distributeSong" /\ ~last.rejected /\ last.call.platform = "YouTube") =>
        LET \* the same song with the same fan-gain estimate released on another
            \* platform, from the state the YouTube release was applied to
            baseline == released(last.before,
                                 [last.call EXCEPT !.platform = "Spotify",
                                                   !.cost = distributionCost("Spotify")],
                                 last.fanGain, 0)
        IN  /\ last.committed.player.fans - last.before.player.fans
                 = 2 * (baseline.player.fans - last.before.player.fans)
            /\ last.committed.player.fame - last.before.player.fame
                 = 4 * (baseline.player.fame - last.before.player.fame)

\* C33, amended: a YouTube release adds exactly 2x the fans and exactly 2x the
\* fame that the same release adds on a platform other than YouTube
C33_YouTubeTwofold ==
    (last.op = "distributeSong" /\ ~last.rejected /\ last.call.platform = "YouTube") =>
        LET \* the same song with the same fan-gain estimate released on another
            \* platform, from the state the YouTube release was applied to
            baseline == released(last.before,
                                 [last.call EXCEPT !.platform = "Spotify",
                                                   !.cost = distributionCost("Spotify")],
                                 last.fanGain, 0)
        IN  /\ last.committed.player.fans - last.before.player.fans
                 = 2 * (baseline.player.fans - last.before.player.fans)
            /\ last.committed.player.fame - last.before.player.fame
                 = 2 * (baseline.player.fame - last.before.player.fame)

C33_Witness ==
    /\ last.op = "distributeSong"
    /\ ~last.rejected
    /\ last.call.platform = "YouTube"
    /\ last.fanGain > 0
    /\ last.song.quality > 0
    /\ gameState = last.committed
    /\ gameState.player.fame = last.before.player.fame + last.song.quality * 2000

\* C34 as stated: a non-rollover advanceTime step changes only the released
\* songs' streams and revenue, player.fans and currentWeek; money, fame, every
\* platform's follower count, skills, labelId, currentDate, awards,
\* trendingTopics, activeOffers, history, news, unreleasedSongs and socialPosts
\* are those of the state the step read
C34_WeekFrame ==
    (last.op = "advanceTime" /\ ~last.rollover) =>
        /\ Len(last.committed.songs) = Len(last.prev.songs)
        /\ \A i \in 1..Len(last.prev.songs) :
              [last.committed.songs[i] EXCEPT !.streams = last.prev.songs[i].streams,
                                              !.revenue = last.prev.songs[i].revenue]
                = last.prev.songs[i]
        /\ [last.committed EXCEPT !.songs = last.prev.songs,
                                  !.player.fans = last.prev.player.fans,
                                  !.currentWeek = last.prev.currentWeek]
             = last.prev

\* C34, amended: a non-rollover advanceTime step changes only the released
\* songs' streams and revenue, player.fans, the Instagram and TikTok follower
\* counts and currentWeek; everything else, the YouTube, Spotify and AppleMusic
\* follower counts included, is that of the state the step read
C34_WeekFrameFollowers ==
    (last.op = "advanceTime" /\ ~last.rollover) =>
        /\ Len(last.committed.songs) = Len(last.prev.songs)
        /\ \A i \in 1..Len(last.prev.songs) :
              [last.committed.songs[i] EXCEPT !.streams = last.prev.songs[i].streams,
                                              !.revenue = last.prev.songs[i].revenue]
                = last.prev.songs[i]
        /\ [last.committed EXCEPT !.songs = last.prev.songs,
                                  !.player.fans = last.prev.player.fans,
                                  !.player.followers.Instagram = last.prev.player.followers.Instagram,
                                  !.player.followers.TikTok = last.prev.player.followers.TikTok,
                                  !.currentWeek = last.prev.currentWeek]
             = last.prev

C34_Witness ==
    /\ last.op = "advanceTime"
    /\ ~last.rollover
    /\ gameState = last.committed
    /\ Len(gameState.songs) > 0
    /\ gameState.songs[1].streams > last.prev.songs[1].streams
    /\ gameState.player.followers.Instagram > last.prev.player.followers.Instagram
    /\ gameState.player.followers.YouTube = last.prev.player.followers.YouTube
    /\ gameState.player.followers.YouTube > 50

\* C35: within a career the history series only grows: no step removes or
\* rewrites a sample; a rollover appends exactly one sample to the series it
\* read, holding the fans it commits, and no other step changes the series; the
\* i-th sample (counted from 0) has month = i; the calendar months elapsed since
\* the career's start date are history length - 1
C35_HistoryGrows ==
    [][ (~handleStartGame /\ ~handleContinue) =>
          /\ Len(gameState'.history) >= Len(gameState.history)
          /\ SubSeq(gameState'.history, 1, Len(gameState.history)) = gameState.history
          /\ IF last'.op = "advanceTime"
             THEN last'.committed.history
                    = IF last'.rollover
                      THEN Append(last'.prev.history,
                                  [month |-> Len(last'.prev.history),
                                   fans |-> last'.committed.player.fans])
                      ELSE last'.prev.history
             ELSE gameState'.history = gameState.history
          /\ \A i \in 1..Len(gameState'.history) : gameState'.history[i].month = i - 1
          /\ MonthIndex(gameState'.currentDate) - MonthIndex(DefaultGameState.currentDate)
               = Len(gameState'.history) - 1 ]_vars

\* C36: the offers of activeOffers have pairwise distinct ids in every reachable
\* state, also when every one of them is the fallback of generateSponsoredOffer
C36_DistinctOfferIds ==
    \A i, j \in 1..Len(gameState.activeOffers) :
        i # j => gameState.activeOffers[i].id # gameState.activeOffers[j].id

\* C37: the impact {fans, fame} recorded on the SocialPost that an action
\* creates is the fans and fame that the same action adds to the player, for
\* handlePostSocial, distributeSong, produceMusicVideo and handleAcceptDeal
C37_ImpactIsDelta ==
    (/\ last.op \in {"handlePostSocial", "distributeSong", "produceMusicVideo", "handleAcceptDeal"}
     /\ "rejected" \in DOMAIN last => ~last.rejected) =>
        LET \* the state the action's update was applied to
            base == IF last.op = "handlePostSocial" THEN last.prev ELSE last.before
            committed == IF "committed" \in DOMAIN last THEN last.committed ELSE gameState
            post == committed.socialPosts[1]
        IN  /\ Len(committed.socialPosts) = Len(base.socialPosts) + 1
            /\ post.impact.fans = committed.player.fans - base.player.fans
            /\ post.impact.fame = committed.player.fame - base.player.fame

\* C38: every song of the unreleased collection has streams = 0 and revenue = 0
\* in every reachable state: advanceTime accrues streams for the released songs
\* only and leaves unreleasedSongs as it read it
C38_VaultSilent ==
    /\ "unreleasedSongs" \in DOMAIN gameState =>
          \A i \in 1..Len(gameState.unreleasedSongs) :
              /\ gameState.unreleasedSongs[i].streams = 0
              /\ gameState.unreleasedSongs[i].revenue = Dollars(0)
    /\ AdvanceCommitted => last.committed.unreleasedSongs = last.prev.unreleasedSongs

C38_Witness ==
    /\ AdvanceCommitted
    /\ gameState = last.committed
    /\ Len(gameState.unreleasedSongs) > 0
    /\ Len(gameState.songs) > 0
    /\ gameState.songs[1].streams > last.prev.songs[1].streams
    /\ gameState.unreleasedSongs[1].streams = 0


\* C39: the awards list holds at most one award per (year, category) pair,
\* and the awards a rollover grants carry the calendar year of the
\* currentDate the rollover read, the year that just ended.
C39_OnePerYearCategory ==
    /\ \A i, j \in DOMAIN gameState.awards :
          (/\ gameState.awards[i].year = gameState.awards[j].year
           /\ gameState.awards[i].category = gameState.awards[j].category) => i = j
    /\ (last.op = "advanceTime" /\ last.rollover /\ last.won > 0) =>
          /\ last.prev.currentDate.month = 11
          /\ Len(last.committed.awards) = Len(last.prev.awards) + last.won
          /\ \A i \in 1..last.won :
                last.committed.awards[Len(last.prev.awards) + i].year
                    = last.prev.currentDate.year

\* C39 witness: a December rollover has granted an award and it is in the list
C39_Witness ==
    /\ last.op = "advanceTime" /\ last.rollover /\ last.won > 0
    /\ gameState = last.committed
    /\ gameState.currentDate.month = 0
    /\ \E i \in DOMAIN gameState.awards :
          gameState.awards[i].year = gameState.currentDate.year - 1


\* C40: winning awards does not disable the random career events for good:
\* whenever the pending-awards condition is set, it is cleared again later, so
\* that a later rollover can surface an event
C40_PendingAwardsCleared == (pendingAwards # Null) ~> (pendingAwards = Null)

====
